---- MODULE Spec2Model ----
(***************************************************************************)
(* A model of the persona generator (src/persona_generator.py):            *)
(*   - GeminiPersonaGenerator.generate_personas: the retry loop around the *)
(*     model call, the JSON extraction and repair pipeline, and the        *)
(*     salvage parser _parse_text_response;                                *)
(*   - QuestionnaireParser.parse: header detection and metadata lines.     *)
(* Text is a sequence of one-character strings, so that strip, split,      *)
(* find, count, upper, lower and json.loads are computed character by      *)
(* character as the Python code computes them.                             *)
(***************************************************************************)
EXTENDS Integers, Sequences, FiniteSets, TLC

(***************************************************************************)
(* Python str operations on texts.                                         *)
(***************************************************************************)
UpperChars == <<"A","B","C","D","E","F","G","H","I","J","K","L","M",
                "N","O","P","Q","R","S","T","U","V","W","X","Y","Z">>

LowerChars == <<"a","b","c","d","e","f","g","h","i","j","k","l","m",
                "n","o","p","q","r","s","t","u","v","w","x","y","z">>

\* str.lower() on one character
LowerChar(c) ==
    IF \E i \in 1..26 : UpperChars[i] = c
    THEN LowerChars[CHOOSE i \in 1..26 : UpperChars[i] = c]
    ELSE c

\* str.upper() on one character
UpperChar(c) ==
    IF \E i \in 1..26 : LowerChars[i] = c
    THEN UpperChars[CHOOSE i \in 1..26 : LowerChars[i] = c]
    ELSE c

\* str.lower()
Lower(t) == [i \in 1..Len(t) |-> LowerChar(t[i])]

\* str.upper()
Upper(t) == [i \in 1..Len(t) |-> UpperChar(t[i])]

\* the characters str.strip() removes
IsSpace(c) == c \in {" ", "\n", "\t", "\r"}

\* str.strip()
Strip(t) ==
    LET keep == {i \in 1..Len(t) : ~IsSpace(t[i])}
    IN  IF keep = {} THEN <<>>
        ELSE LET lo == CHOOSE i \in keep : \A j \in keep : i <= j
                 hi == CHOOSE i \in keep : \A j \in keep : j <= i
             IN  SubSeq(t, lo, hi)

\* t[i-1:].startswith(p), positions counted from 1
StartsWithAt(t, p, i) ==
    /\ i + Len(p) - 1 <= Len(t)
    /\ SubSeq(t, i, i + Len(p) - 1) = p

\* str.startswith
StartsWith(t, p) == StartsWithAt(t, p, 1)

\* str.find(p) + 1: the position (from 1) of the first occurrence, 0 if none
Find(t, p) ==
    LET hits == {i \in 1..(Len(t) + 1) : StartsWithAt(t, p, i)}
    IN  IF hits = {} THEN 0
        ELSE CHOOSE i \in hits : \A j \in hits : i <= j

\* p in t
Contains(t, p) == Find(t, p) # 0

\* str.count(c) for a one-character c
Count(t, c) == Cardinality({i \in 1..Len(t) : t[i] = c})

\* c * n for a one-character c
Repeat(c, n) == [i \in 1..n |-> c]

RECURSIVE Split(_, _)
\* str.split(sep) for a non-empty sep
Split(t, sep) ==
    LET i == Find(t, sep)
    IN  IF i = 0 THEN <<t>>
        ELSE <<SubSeq(t, 1, i - 1)>> \o Split(SubSeq(t, i + Len(sep), Len(t)), sep)

(***************************************************************************)
(* json.loads on texts.  A JSON value is a record [t, v]: t is the Python  *)
(* type ("list", "dict", "str", "int", "bool", "NoneType") and v a         *)
(* sequence: the elements of a list, the [k, v] items of a dict in         *)
(* insertion order, the characters of a str, the digits of an int.  The    *)
(* grammar covered is the one over the characters the model's texts use:   *)
(* objects, arrays, strings without escapes, non-negative integers, true,  *)
(* false and null.                                                         *)
(***************************************************************************)
JList(elems) == [t |-> "list", v |-> elems]

JDict(items) == [t |-> "dict", v |-> items]

JStr(chars) == [t |-> "str", v |-> chars]

JInt(digits) == [t |-> "int", v |-> digits]

JTrue == [t |-> "bool", v |-> <<"1">>]

JFalse == [t |-> "bool", v |-> <<"0">>]

JNone == [t |-> "NoneType", v |-> <<>>]

EmptyList == JList(<<>>)

\* a failed parse (json.JSONDecodeError)
JFail == [ok |-> FALSE, val |-> JNone, pos |-> 0]

JOk(val, pos) == [ok |-> TRUE, val |-> val, pos |-> pos]

Digits == {"0","1","2","3","4","5","6","7","8","9"}

\* json.decoder WHITESPACE.match(t, i).end()
SkipWs(t, i) ==
    LET stop == {j \in i..(Len(t) + 1) : j = Len(t) + 1 \/ ~IsSpace(t[j])}
    IN  CHOOSE j \in stop : \A k \in stop : j <= k

\* dict[k] = v: a repeated key keeps its place and takes the new value
DictSet(items, k, v) ==
    IF \E i \in 1..Len(items) : items[i].k = k
    THEN [i \in 1..Len(items) |-> IF items[i].k = k THEN [k |-> k, v |-> v] ELSE items[i]]
    ELSE Append(items, [k |-> k, v |-> v])

\* key in dict
DictHas(d, k) == \E i \in 1..Len(d.v) : d.v[i].k = k

\* dict[key] for a key the dict has
DictAt(d, k) == d.v[CHOOSE i \in 1..Len(d.v) : d.v[i].k = k].v

\* dict.get(key, default)
DictGet(d, k, default) == IF DictHas(d, k) THEN DictAt(d, k) ELSE default

\* json.decoder.scanstring (strict): t[i] is the opening quote
ParseString(t, i) ==
    LET close == {j \in (i + 1)..Len(t) : t[j] = "\""}
    IN  IF close = {} THEN JFail
        ELSE LET j == CHOOSE j \in close : \A k \in close : j <= k
             IN  IF \E k \in (i + 1)..(j - 1) : t[k] \in {"\n", "\t", "\r"}
                 THEN JFail
                 ELSE JOk(JStr(SubSeq(t, i + 1, j - 1)), j + 1)

\* json.scanner NUMBER_RE: t[i] is a digit
ParseNumber(t, i) ==
    IF t[i] = "0" THEN JOk(JInt(<<"0">>), i + 1)
    ELSE LET stop == {j \in (i + 1)..(Len(t) + 1) : j = Len(t) + 1 \/ t[j] \notin Digits}
             j == CHOOSE j \in stop : \A k \in stop : j <= k
         IN  JOk(JInt(SubSeq(t, i, j - 1)), j)

RECURSIVE ParseValue(_, _)
RECURSIVE ParseMembers(_, _, _)
RECURSIVE ParseElements(_, _, _)

\* json.decoder.JSONObject: i follows the opening brace
ParseObject(t, i) ==
    LET j == SkipWs(t, i)
    IN  IF j > Len(t) THEN JFail
        ELSE IF t[j] = "}" THEN JOk(JDict(<<>>), j + 1)
        ELSE IF t[j] # "\"" THEN JFail
        ELSE ParseMembers(t, j, <<>>)

\* the member loop of JSONObject: t[j] is the opening quote of a key
ParseMembers(t, j, acc) ==
    LET key == ParseString(t, j)
    IN  IF ~key.ok THEN JFail
        ELSE LET c == SkipWs(t, key.pos)
             IN  IF c > Len(t) \/ t[c] # ":" THEN JFail
                 ELSE LET val == ParseValue(t, SkipWs(t, c + 1))
                      IN  IF ~val.ok THEN JFail
                          ELSE LET e == SkipWs(t, val.pos)
                                   items == DictSet(acc, key.val.v, val.val)
                               IN  IF e > Len(t) THEN JFail
                                   ELSE IF t[e] = "}" THEN JOk(JDict(items), e + 1)
                                   ELSE IF t[e] # "," THEN JFail
                                   ELSE LET n == SkipWs(t, e + 1)
                                        IN  IF n > Len(t) \/ t[n] # "\"" THEN JFail
                                            ELSE ParseMembers(t, n, items)

\* json.decoder.JSONArray: i follows the opening bracket
ParseArray(t, i) ==
    LET j == SkipWs(t, i)
    IN  IF j > Len(t) THEN JFail
        ELSE IF t[j] = "]" THEN JOk(EmptyList, j + 1)
        ELSE ParseElements(t, j, <<>>)

\* the element loop of JSONArray: an element is expected at j
ParseElements(t, j, acc) ==
    LET val == ParseValue(t, j)
    IN  IF ~val.ok THEN JFail
        ELSE LET e == SkipWs(t, val.pos)
                 elems == Append(acc, val.val)
             IN  IF e > Len(t) THEN JFail
                 ELSE IF t[e] = "]" THEN JOk(JList(elems), e + 1)
                 ELSE IF t[e] # "," THEN JFail
                 ELSE ParseElements(t, SkipWs(t, e + 1), elems)

\* json.scanner scan_once at position i
ParseValue(t, i) ==
    IF i > Len(t) THEN JFail
    ELSE IF t[i] = "\"" THEN ParseString(t, i)
    ELSE IF t[i] = "{" THEN ParseObject(t, i + 1)
    ELSE IF t[i] = "[" THEN ParseArray(t, i + 1)
    ELSE IF StartsWithAt(t, <<"n","u","l","l">>, i) THEN JOk(JNone, i + 4)
    ELSE IF StartsWithAt(t, <<"t","r","u","e">>, i) THEN JOk(JTrue, i + 4)
    ELSE IF StartsWithAt(t, <<"f","a","l","s","e">>, i) THEN JOk(JFalse, i + 5)
    ELSE IF t[i] \in Digits THEN ParseNumber(t, i)
    ELSE JFail

\* json.loads: ok is FALSE where Python raises json.JSONDecodeError
JsonLoads(t) ==
    LET val == ParseValue(t, SkipWs(t, 1))
    IN  IF ~val.ok THEN JFail
        ELSE IF SkipWs(t, val.pos) # Len(t) + 1 THEN JFail
        ELSE JOk(val.val, Len(t) + 1)

(***************************************************************************)
(* The JSON extraction and repair pipeline of generate_personas.           *)
(***************************************************************************)
\* the backquote character (a TLA+ string literal cannot hold one)
Backtick == "BACKTICK"

Fence == <<Backtick, Backtick, Backtick>>

JsonFence == Fence \o <<"j","s","o","n">>

\* the first part holding both an opening brace and an opening bracket, 0 if none
FirstJsonLikePart(parts) ==
    LET hits == {i \in 1..Len(parts) : Contains(parts[i], <<"{">>) /\ Contains(parts[i], <<"[">>)}
    IN  IF hits = {} THEN 0
        ELSE CHOOSE i \in hits : \A j \in hits : i <= j

\* step 1: the text taken out of markdown code fences; text is response.text.strip()
StripFences(text) ==
    IF Contains(text, JsonFence)
    THEN Strip(Split(Split(text, JsonFence)[2], Fence)[1])
    ELSE IF Contains(text, Fence)
    THEN LET parts == Split(text, Fence)
             i == FirstJsonLikePart(parts)
         IN  IF i = 0 THEN text ELSE Strip(parts[i])
    ELSE text

\* step 2: drop what precedes the first opening brace or bracket
TrimToJsonStart(text) ==
    IF StartsWith(text, <<"{">>) \/ StartsWith(text, <<"[">>) THEN text
    ELSE LET brace == IF Contains(text, <<"{">>) THEN Find(text, <<"{">>) ELSE Len(text) + 1
             bracket == IF Contains(text, <<"[">>) THEN Find(text, <<"[">>) ELSE Len(text) + 1
             start == IF brace <= bracket THEN brace ELSE bracket
         IN  IF start < Len(text) + 1 THEN SubSeq(text, start, Len(text)) ELSE text

\* step 3, braces: append the closing braces the counts say are missing
CloseBraces(text) ==
    IF Count(text, "{") > Count(text, "}")
    THEN text \o Repeat("}", Count(text, "{") - Count(text, "}"))
    ELSE text

\* step 3, brackets: append the closing brackets the counts say are missing
CloseBrackets(text) ==
    IF Count(text, "[") > Count(text, "]")
    THEN text \o Repeat("]", Count(text, "[") - Count(text, "]"))
    ELSE text

\* the text handed to json.loads for a response text
RepairedText(raw) == CloseBrackets(CloseBraces(TrimToJsonStart(StripFences(Strip(raw)))))

\* step 4 accepts a list or a dict
IsPersonasContainer(data) == data.t \in {"list", "dict"}

\* PersonasOf with an object returned as it is
PersonasOfUnwrapped(data) == data

\* step 4: the value returned for parsed data that is a list or a dict
PersonasOf(data) ==
    IF data.t = "list" THEN data
    ELSE DictGet(data, <<"p","e","r","s","o","n","a","s">>, EmptyList)

(***************************************************************************)
(* The salvage parser _parse_text_response.                                *)
(***************************************************************************)
RECURSIVE ScanObject(_, _, _)
\* the regular expression \{[^{}]*(?:\{[^{}]*\}[^{}]*)*\} from an opening brace:
\* j is the next position, depth the number of braces open inside the first;
\* the position of the closing brace of the match, 0 if there is no match
ScanObject(t, j, depth) ==
    IF j > Len(t) THEN 0
    ELSE IF t[j] = "{" THEN (IF depth = 0 THEN ScanObject(t, j + 1, 1) ELSE 0)
    ELSE IF t[j] = "}" THEN (IF depth = 0 THEN j ELSE ScanObject(t, j + 1, 0))
    ELSE ScanObject(t, j + 1, depth)

RECURSIVE FindAllObjects(_, _)
\* re.findall of that expression from position i: the matches, left to right
FindAllObjects(t, i) ==
    IF i > Len(t) THEN <<>>
    ELSE IF t[i] = "{" /\ ScanObject(t, i + 1, 0) # 0
    THEN LET e == ScanObject(t, i + 1, 0)
         IN  <<SubSeq(t, i, e)>> \o FindAllObjects(t, e + 1)
    ELSE FindAllObjects(t, i + 1)

\* max(matches, key=len): the first of the longest matches
LargestMatch(matches) ==
    matches[CHOOSE i \in 1..Len(matches) :
                /\ \A j \in 1..Len(matches) : Len(matches[j]) <= Len(matches[i])
                /\ \A j \in 1..(i - 1) : Len(matches[j]) < Len(matches[i])]

\* _parse_text_response(text)
ParseTextResponse(text) ==
    LET matches == FindAllObjects(text, 1)
    IN  IF matches = <<>> THEN EmptyList
        ELSE LET data == JsonLoads(LargestMatch(matches))
             IN  IF ~data.ok THEN EmptyList
                 ELSE IF data.val.t = "dict" /\ DictHas(data.val, <<"p","e","r","s","o","n","a","s">>)
                 THEN DictAt(data.val, <<"p","e","r","s","o","n","a","s">>)
                 ELSE IF data.val.t = "list" THEN data.val
                 ELSE EmptyList

(***************************************************************************)
(* The inputs of generate_personas: what one model call can produce.       *)
(***************************************************************************)
\* str(e) = 'Rate Limit'
E_RateLimit == <<"R","a","t","e"," ","L","i","m","i","t">>

\* str(e) = 'quota'
E_Quota == <<"q","u","o","t","a">>

\* str(e) = 'Timeout'
E_Timeout == <<"T","i","m","e","o","u","t">>

\* str(e) = '429'
E_429 == <<"4","2","9">>

\* str(e) = '500'
E_500 == <<"5","0","0">>

\* str(e) = '502'
E_502 == <<"5","0","2">>

\* str(e) = '503'
E_503 == <<"5","0","3">>

\* str(e) = 'bad key'
E_InvalidKey == <<"b","a","d"," ","k","e","y">>

\* str(e) = '403'
E_403 == <<"4","0","3">>

\* str(e) = ''
E_Blank == <<>>

\* the messages of the exceptions the model call raises
ErrorMessages == {E_RateLimit, E_Quota, E_Timeout, E_429, E_500, E_502, E_503, E_InvalidKey, E_403, E_Blank}

\* response.text = '{"personas":[{"a":1}]}'
R_Wrapped ==
    <<"{","\"","p","e","r","s","o","n","a","s","\"",":","[","{","\"","a","\"",":","1","}","]","}">>

\* response.text = '{"personas": [{"a":1}, {"b":"c"}]}\n'
R_WrappedTwo ==
    <<"{","\"","p","e","r","s","o","n","a","s","\"",":"," ","[","{","\"","a","\"",":","1","}",","," ","{","\"","b","\"",":","\"","c","\"","}","]","}","\n">>

\* response.text = '[{"a":1}]'
R_BareList ==
    <<"[","{","\"","a","\"",":","1","}","]">>

\* response.text = '[]'
R_EmptyListText ==
    <<"[","]">>

\* response.text = '{"a":1}'
R_NoPersonasKey ==
    <<"{","\"","a","\"",":","1","}">>

\* response.text = '[{"a":[1]}]'
R_ListFirst ==
    <<"[","{","\"","a","\"",":","[","1","]","}","]">>

\* response.text = '{"personas":[{"q":"{"}]}'
R_BraceInString ==
    <<"{","\"","p","e","r","s","o","n","a","s","\"",":","[","{","\"","q","\"",":","\"","{","\"","}","]","}">>

\* response.text = 'Hi\n<fence>json\n{"personas":[{"a":1}]}\n<fence>\nBye'
R_JsonFenced ==
    <<"H","i","\n",Backtick,Backtick,Backtick,"j","s","o","n","\n","{","\"","p","e","r","s","o","n","a","s","\"",":","[","{","\"","a","\"",":","1","}","]","}","\n",Backtick,Backtick,Backtick,"\n","B","y","e">>

\* response.text = '<fence>json\n[{"a":1}]'
R_JsonFencedOpen ==
    <<Backtick,Backtick,Backtick,"j","s","o","n","\n","[","{","\"","a","\"",":","1","}","]">>

\* response.text = '<fence>\n[{"a":1}]\n<fence>'
R_PlainFenced ==
    <<Backtick,Backtick,Backtick,"\n","[","{","\"","a","\"",":","1","}","]","\n",Backtick,Backtick,Backtick>>

\* response.text = '<fence>x<fence> and <fence>[{"b":2}]<fence>'
R_SecondFence ==
    <<Backtick,Backtick,Backtick,"x",Backtick,Backtick,Backtick," ","a","n","d"," ",Backtick,Backtick,Backtick,"[","{","\"","b","\"",":","2","}","]",Backtick,Backtick,Backtick>>

\* response.text = 'see {[1]}: <fence>\n[{"a":1}]\n<fence>'
R_PreambleFence ==
    <<"s","e","e"," ","{","[","1","]","}",":"," ",Backtick,Backtick,Backtick,"\n","[","{","\"","a","\"",":","1","}","]","\n",Backtick,Backtick,Backtick>>

\* response.text = '<fence>x<fence> [{}] <fence>[{"a":1}]<fence>'
R_BetweenFences ==
    <<Backtick,Backtick,Backtick,"x",Backtick,Backtick,Backtick," ","[","{","}","]"," ",Backtick,Backtick,Backtick,"[","{","\"","a","\"",":","1","}","]",Backtick,Backtick,Backtick>>

\* response.text = '<fence>x<fence>'
R_FenceNoJson ==
    <<Backtick,Backtick,Backtick,"x",Backtick,Backtick,Backtick>>

\* response.text = 'Sure: [{"a":1}]'
R_Prose ==
    <<"S","u","r","e",":"," ","[","{","\"","a","\"",":","1","}","]">>

\* response.text = 'sorry'
R_ProseOnly ==
    <<"s","o","r","r","y">>

\* response.text = '{"personas":[{"a":1}]'
R_WrappedCut1 ==
    <<"{","\"","p","e","r","s","o","n","a","s","\"",":","[","{","\"","a","\"",":","1","}","]">>

\* response.text = '{"personas":[{"a":1}'
R_WrappedCut2 ==
    <<"{","\"","p","e","r","s","o","n","a","s","\"",":","[","{","\"","a","\"",":","1","}">>

\* response.text = '{"personas":[{"a":1'
R_WrappedCut3 ==
    <<"{","\"","p","e","r","s","o","n","a","s","\"",":","[","{","\"","a","\"",":","1">>

\* response.text = '[{"a":1}'
R_BareListCut1 ==
    <<"[","{","\"","a","\"",":","1","}">>

\* response.text = '[{"a":1'
R_BareListCut2 ==
    <<"[","{","\"","a","\"",":","1">>

\* response.text = '[{"a":[1]'
R_ListFirstCut2 ==
    <<"[","{","\"","a","\"",":","[","1","]">>

\* response.text = '[{"a":[1'
R_ListFirstCut3 ==
    <<"[","{","\"","a","\"",":","[","1">>

\* response.text = '{"personas":[{"a":"b'
R_CutInString ==
    <<"{","\"","p","e","r","s","o","n","a","s","\"",":","[","{","\"","a","\"",":","\"","b">>

\* response.text = '{"personas":[{"a":1}]} {'
R_TrailingBrace ==
    <<"{","\"","p","e","r","s","o","n","a","s","\"",":","[","{","\"","a","\"",":","1","}","]","}"," ","{">>

\* response.text = '{"personas":[{"a":1},]}'
R_TrailingComma ==
    <<"{","\"","p","e","r","s","o","n","a","s","\"",":","[","{","\"","a","\"",":","1","}",",","]","}">>

\* response.text = 'x {"a":[1]} {"personas":[2]} y'
R_SalvageList ==
    <<"x"," ","{","\"","a","\"",":","[","1","]","}"," ","{","\"","p","e","r","s","o","n","a","s","\"",":","[","2","]","}"," ","y">>

\* response.text = '{"personas":null} {'
R_SalvageNull ==
    <<"{","\"","p","e","r","s","o","n","a","s","\"",":","n","u","l","l","}"," ","{">>

\* response.text = '{"personas":[1]} <fence>json\n{"a":1,}<fence>'
R_SalvageRaw ==
    <<"{","\"","p","e","r","s","o","n","a","s","\"",":","[","1","]","}"," ",Backtick,Backtick,Backtick,"j","s","o","n","\n","{","\"","a","\"",":","1",",","}",Backtick,Backtick,Backtick>>

\* response.text = '{"personas":null}'
R_PersonasNull ==
    <<"{","\"","p","e","r","s","o","n","a","s","\"",":","n","u","l","l","}">>

\* response.text = '{"personas":"none"}'
R_PersonasString ==
    <<"{","\"","p","e","r","s","o","n","a","s","\"",":","\"","n","o","n","e","\"","}">>

\* response.text = '{"personas":5}'
R_PersonasNumber ==
    <<"{","\"","p","e","r","s","o","n","a","s","\"",":","5","}">>

\* response.text = '{"personas":true}'
R_PersonasTrue ==
    <<"{","\"","p","e","r","s","o","n","a","s","\"",":","t","r","u","e","}">>

\* response.text = '"ok"'
R_ScalarString ==
    <<"\"","o","k","\"">>

\* response.text = '42'
R_ScalarNumber ==
    <<"4","2">>

\* response.text = 'null'
R_ScalarNull ==
    <<"n","u","l","l">>

\* response.text = 'true'
R_ScalarTrue ==
    <<"t","r","u","e">>

\* response.text = ' \n'
R_Blank ==
    <<" ","\n">>

\* the non-empty texts a response carries
Responses ==
    {R_Wrapped, R_WrappedTwo, R_BareList, R_EmptyListText,
     R_NoPersonasKey, R_ListFirst, R_BraceInString, R_JsonFenced,
     R_JsonFencedOpen, R_PlainFenced, R_SecondFence, R_PreambleFence,
     R_BetweenFences, R_FenceNoJson, R_Prose, R_ProseOnly,
     R_WrappedCut1, R_WrappedCut2, R_WrappedCut3, R_BareListCut1,
     R_BareListCut2, R_ListFirstCut2, R_ListFirstCut3, R_CutInString,
     R_TrailingBrace, R_TrailingComma, R_SalvageList, R_SalvageNull,
     R_SalvageRaw, R_PersonasNull, R_PersonasString, R_PersonasNumber,
     R_PersonasTrue, R_ScalarString,
     R_ScalarNumber, R_ScalarNull, R_ScalarTrue, R_Blank}


(***************************************************************************)
(* generate_personas: the retry loop.                                      *)
(***************************************************************************)
\* the largest max_retries a caller passes
MaxRetries == 4

\* retryable_errors
RetryableErrors ==
    << <<"r","a","t","e"," ","l","i","m","i","t">>, <<"q","u","o","t","a">>,
       <<"t","i","m","e","o","u","t">>, <<"5","0","3">>, <<"4","2","9">>,
       <<"5","0","0">>, <<"5","0","2">> >>

\* IsRetryable with every failure taken as retryable
IsRetryableAlways(msg) == TRUE

\* is_retryable, for the message str(e)
IsRetryable(msg) ==
    \E i \in 1..Len(RetryableErrors) : Contains(Lower(msg), RetryableErrors[i])

\* the message of ValueError("Empty response from API")
EmptyResponseMsg ==
    <<"E","m","p","t","y"," ","r","e","s","p","o","n","s","e"," ","f","r","o","m"," ","A","P","I">>

\* the characters of a Python type name
TypeName(data) ==
    CASE data.t = "str" -> <<"s","t","r">>
      [] data.t = "int" -> <<"i","n","t">>
      [] data.t = "bool" -> <<"b","o","o","l">>
      [] data.t = "NoneType" -> <<"N","o","n","e","T","y","p","e">>
      [] data.t = "list" -> <<"l","i","s","t">>
      [] data.t = "dict" -> <<"d","i","c","t">>

\* the message of ValueError(f"Unexpected response format: {type(personas_data)}")
UnexpectedFormatMsg(data) ==
    <<"U","n","e","x","p","e","c","t","e","d"," ","r","e","s","p","o","n","s","e"," ",
      "f","o","r","m","a","t",":"," ","<","c","l","a","s","s"," ","'">>
    \o TypeName(data) \o <<"'",">">>

\* a delay that grows by two seconds per attempt: 2 * attempt
BackoffLinear(k) == 2 * k

\* the delay 2 ** attempt, in seconds
Backoff(k) == 2 ^ k

\* attempt == max_retries - 1
IsLastAttempt(k, n) == k = n - 1

\* HasAttemptsLeft with the bound off by one: attempt < max_retries
HasAttemptsLeftOffByOne(k, n) == k < n

\* attempt < max_retries - 1
HasAttemptsLeft(k, n) == k < n - 1

\* the state of one call of generate_personas
VARIABLES
    max_retries,     \* the argument max_retries
    attempt,         \* the loop variable: the index of the attempt being made
    calls,           \* the number of calls of model.generate_content so far
    sleeps,          \* the delays passed to time.sleep so far, in order
    pc,              \* "loop", "returned" or "raised"
    result,          \* the value returned
    raised,          \* the exception raised to the caller
    last_exception,  \* last_exception
    last,            \* what the latest model call produced
    history          \* the class of what each model call produced, in order

genVars == <<max_retries, attempt, calls, sleeps, pc, result, raised, last_exception, last, history>>

\* the state of one call of QuestionnaireParser.parse
VARIABLES
    all_lines,         \* all_lines: the lines of the file
    columns,           \* section_col, question_col and answer_col
    line_no,           \* the line the scan is at, counted from 1
    header_row_index,  \* header_row_index, counted from 0
    header_found,      \* the scan ended on a header line
    client_info,       \* client_info, the items in insertion order
    fieldnames,        \* available_columns: the fields of the header record
    col_names,         \* section_col_name, question_col_name, answer_col_name
    reader,            \* the rows the DictReader yields, in order, and whether
                       \* it raises csv.Error after them
    row_no,            \* the row the loop over reader is at, counted from 1
    questions_answers, \* questions_answers, returned as all_qa
    persona_section,   \* persona_section, returned as persona_qa
    ppc                \* "scan", "read" once header_row_index is settled,
                       \* "rows" in the loop over reader, then "returned"
                       \* or "raised"

parseVars == <<all_lines, columns, line_no, header_row_index, header_found, client_info,
               fieldnames, col_names, reader, row_no, questions_answers,
               persona_section, ppc>>

\* what the scan for the header leaves alone
readVars == <<fieldnames, col_names, reader, row_no, questions_answers, persona_section>>

\* the state of the calls of PersonaCSVExporter.export
VARIABLES
    export_personas,     \* the argument personas
    export_client_info,  \* the argument client_info, the items in insertion order
    output_file,         \* the file at output_path: whether it exists, and its text
    export_rows,         \* rows, as the latest call built them
    export_outcome,      \* how the latest call ended: "returned" or "raised"
    outputs,             \* the file at output_path after each call, in order
    epc                  \* "call" when export is being called, "done" after it

exportVars == <<export_personas, export_client_info, output_file, export_rows,
                export_outcome, outputs, epc>>

\* the state of main
VARIABLES
    input_exists,  \* os.path.exists(args.input_csv)
    api_key_set,   \* an API key is given by --api-key or GEMINI_API_KEY
    mpc,           \* the step main is at
    exit_code,     \* the exit status of the process, -1 while it runs
    export_calls   \* the personas of each call of exporter.export, in order

mainVars == <<input_exists, api_key_set, mpc, exit_code, export_calls>>

\* the state of a session of the web app: st.session_state, the widgets and
\* the position of the script run
VARIABLES
    uploaded_file,       \* the file in the uploader: whether there is one, and its lines
    clicked,             \* the run was started by a click on the Generate button
    api_key,             \* GEMINI_API_KEY is set to a key
    questionnaire_data,  \* st.session_state.questionnaire_data: whether the key is
                         \* there, the dataset, and the file and the run it was
                         \* parsed from and in
    session_client_info, \* st.session_state.client_info: whether it is set, and its items
    personas_generated,  \* st.session_state.personas_generated
    personas_data,       \* st.session_state.personas_data
    csv_data,            \* st.session_state.csv_data: whether it is set, and the text
    offered,             \* the Generate button was rendered by the latest run
    generate_input,      \* the questionnaire data handed to generate_personas
    run_no,              \* the number of script runs so far
    apc                  \* the step the script run is at, "wait" between runs

appVars == <<uploaded_file, clicked, api_key, questionnaire_data, session_client_info,
             personas_generated, personas_data, csv_data, offered, generate_input,
             run_no, apc>>

vars == <<genVars, parseVars, exportVars, mainVars, appVars>>

NoResult == [t |-> "unset", v |-> <<>>]

\* raised: kind "after" stands for the message
\* f"Failed to generate personas after {attempts} attempts: {cause}",
\* kind "failed" for f"Failed to generate personas: {cause}" and kind
\* "unknown" for "Failed to generate personas: Unknown error"
NoError == [kind |-> "none", attempts |-> 0, cause |-> <<>>]

NoException == [set |-> FALSE, msg |-> <<>>]

NoOutcome == [kind |-> "none", text |-> <<>>]

\* the substrings that make a failure transient
TransientSubstrings ==
    { <<"r","a","t","e"," ","l","i","m","i","t">>, <<"q","u","o","t","a">>,
      <<"t","i","m","e","o","u","t">>, <<"4","2","9">>, <<"5","0","0">>,
      <<"5","0","2">>, <<"5","0","3">> }

\* the lower-cased message holds one of them
IsTransient(msg) == \E p \in TransientSubstrings : Contains(Lower(msg), p)

\* the class history records for a model-call exception with message msg
ErrorClass(msg) == IF IsTransient(msg) THEN "retryable_error" ELSE "other_error"

GenInit ==
    /\ max_retries \in 0..MaxRetries
    /\ attempt = 0
    /\ calls = 0
    /\ sleeps = <<>>
    /\ pc = "loop"
    /\ result = NoResult
    /\ raised = NoError
    /\ last_exception = NoException
    /\ last = NoOutcome
    /\ history = <<>>

\* the handler "except Exception as e" for an exception with message msg
HandleException(msg) ==
    /\ last_exception' = [set |-> TRUE, msg |-> msg]
    /\ IF HasAttemptsLeft(attempt, max_retries) /\ IsRetryable(msg)
       THEN /\ sleeps' = Append(sleeps, Backoff(attempt))
            /\ attempt' = attempt + 1
            /\ UNCHANGED <<pc, raised>>
       ELSE /\ pc' = "raised"
            /\ raised' = [kind |-> "after", attempts |-> attempt + 1, cause |-> msg]
            /\ UNCHANGED <<sleeps, attempt>>
    /\ UNCHANGED result

\* HandleJsonError with the salvage parser given the repaired text
HandleJsonErrorOnRepaired(raw) ==
    IF IsLastAttempt(attempt, max_retries)
    THEN /\ pc' = "returned"
         /\ result' = ParseTextResponse(RepairedText(raw))
         /\ UNCHANGED <<sleeps, attempt, raised, last_exception>>
    ELSE /\ sleeps' = Append(sleeps, Backoff(attempt))
         /\ attempt' = attempt + 1
         /\ UNCHANGED <<pc, result, raised, last_exception>>

\* the handler "except json.JSONDecodeError" for the response text raw
HandleJsonError(raw) ==
    IF IsLastAttempt(attempt, max_retries)
    THEN /\ pc' = "returned"
         /\ result' = ParseTextResponse(raw)
         /\ UNCHANGED <<sleeps, attempt, raised, last_exception>>
    ELSE /\ sleeps' = Append(sleeps, Backoff(attempt))
         /\ attempt' = attempt + 1
         /\ UNCHANGED <<pc, result, raised, last_exception>>

\* one iteration of the loop in which model.generate_content raises
AttemptRaises(msg) ==
    /\ pc = "loop"
    /\ attempt < max_retries
    /\ calls' = calls + 1
    /\ last' = [kind |-> "error", text |-> msg]
    /\ history' = Append(history, ErrorClass(msg))
    /\ HandleException(msg)
    /\ UNCHANGED <<max_retries, parseVars, exportVars, mainVars, appVars>>

\* one iteration in which the response has no text attribute (kind "missing")
\* or an empty text (kind "text")
AttemptNoText(kind) ==
    /\ pc = "loop"
    /\ attempt < max_retries
    /\ calls' = calls + 1
    /\ last' = [kind |-> kind, text |-> <<>>]
    /\ history' = Append(history, "no_text")
    /\ HandleException(EmptyResponseMsg)
    /\ UNCHANGED <<max_retries, parseVars, exportVars, mainVars, appVars>>

\* one iteration in which the response carries the non-empty text raw
AttemptText(raw) ==
    /\ pc = "loop"
    /\ attempt < max_retries
    /\ calls' = calls + 1
    /\ last' = [kind |-> "text", text |-> raw]
    /\ history' = Append(history, "text")
    /\ LET data == JsonLoads(RepairedText(raw))
       IN  IF ~data.ok THEN HandleJsonError(raw)
           ELSE IF IsPersonasContainer(data.val)
           THEN /\ pc' = "returned"
                /\ result' = PersonasOf(data.val)
                /\ UNCHANGED <<sleeps, attempt, raised, last_exception>>
           ELSE HandleException(UnexpectedFormatMsg(data.val))
    /\ UNCHANGED <<max_retries, parseVars, exportVars, mainVars, appVars>>

\* the loop ends without a return or a raise
LoopExhausted ==
    /\ pc = "loop"
    /\ attempt >= max_retries
    /\ pc' = "raised"
    /\ raised' = IF last_exception.set
                 THEN [kind |-> "failed", attempts |-> 0, cause |-> last_exception.msg]
                 ELSE [kind |-> "unknown", attempts |-> 0, cause |-> <<>>]
    /\ UNCHANGED <<max_retries, attempt, calls, sleeps, result, last_exception, last, history>>
    /\ UNCHANGED <<parseVars, exportVars, mainVars, appVars>>

GenNext ==
    \/ \E msg \in ErrorMessages : AttemptRaises(msg)
    \/ \E kind \in {"missing", "text"} : AttemptNoText(kind)
    \/ \E raw \in Responses : AttemptText(raw)
    \/ LoopExhausted

(***************************************************************************)
(* The inputs of QuestionnaireParser.parse: the lines of the file, as      *)
(* readlines() returns them, and the column names the caller passes.       *)
(***************************************************************************)
\* 'Client Name,Acme\n'
L_Meta ==
    <<"C","l","i","e","n","t"," ","N","a","m","e",",","A","c","m","e","\n">>

\* 'Questionnaire,Answers\n'
L_Title ==
    <<"Q","u","e","s","t","i","o","n","n","a","i","r","e",",","A","n","s","w","e","r","s","\n">>

\* 'Section,Question,Answer\n'
L_Header ==
    <<"S","e","c","t","i","o","n",",","Q","u","e","s","t","i","o","n",",","A","n","s","w","e","r","\n">>

\* ' answer , question\n'
L_HeaderLow ==
    <<" ","a","n","s","w","e","r"," ",","," ","q","u","e","s","t","i","o","n","\n">>

\* 'Prompt,Reply\n'
L_Custom ==
    <<"P","r","o","m","p","t",",","R","e","p","l","y","\n">>

\* 'Item\n'
L_Single ==
    <<"I","t","e","m","\n">>

\* 'Question,,Answers\n'
L_NearMiss ==
    <<"Q","u","e","s","t","i","o","n",",",",","A","n","s","w","e","r","s","\n">>

\* 'Persona,What?,Speed\n'
L_Row ==
    <<"P","e","r","s","o","n","a",",","W","h","a","t","?",",","S","p","e","e","d","\n">>

\* 'PERSONA,Who?,Devs\n'
L_RowUpper ==
    <<"P","E","R","S","O","N","A",",","W","h","o","?",",","D","e","v","s","\n">>

\* 'target audience,Who?,Devs\n'
L_RowAudience ==
    <<"t","a","r","g","e","t"," ","a","u","d","i","e","n","c","e",",","W","h","o","?",",","D","e","v","s","\n">>

\* 'Budget,Cost?,Low\n'
L_RowOther ==
    <<"B","u","d","g","e","t",",","C","o","s","t","?",",","L","o","w","\n">>

\* 'Persona,  ,Speed\n'
L_RowNoQuestion ==
    <<"P","e","r","s","o","n","a",","," "," ",",","S","p","e","e","d","\n">>

\* 'Customer,Why?,\n'
L_RowNoAnswer ==
    <<"C","u","s","t","o","m","e","r",",","W","h","y","?",",","\n">>

\* ' ,How?, Fast \n'
L_RowBlankSection ==
    <<" ",",","H","o","w","?",","," ","F","a","s","t"," ","\n">>

\* 'Persona,What?\n'
L_RowShort ==
    <<"P","e","r","s","o","n","a",",","W","h","a","t","?","\n">>

\* '"Customer, VIP","Say ""hi""?",Yes\n'
L_RowQuoted ==
    <<"\"","C","u","s","t","o","m","e","r",","," ","V","I","P","\"",",","\"","S","a","y"," ","\"","\"","h","i","\"","\"","?","\"",",","Y","e","s","\n">>

\* 'Why?,Because\n'
L_RowTwo ==
    <<"W","h","y","?",",","B","e","c","a","u","s","e","\n">>

\* '\n'
L_BlankLine ==
    <<"\n">>

\* 'Client Name, Beta Corp \n'
L_MetaDup ==
    <<"C","l","i","e","n","t"," ","N","a","m","e",","," ","B","e","t","a"," ","C","o","r","p"," ","\n">>

\* ' Product Name , Widget, Pro\n'
L_MetaSpaced ==
    <<" ","P","r","o","d","u","c","t"," ","N","a","m","e"," ",","," ","W","i","d","g","e","t",","," ","P","r","o","\n">>

\* 'Draft\n'
L_MetaBare ==
    <<"D","r","a","f","t","\n">>

\* 'Client Name,Gamma,Inc\n'
L_MetaAfter ==
    <<"C","l","i","e","n","t"," ","N","a","m","e",",","G","a","m","m","a",",","I","n","c","\n">>

\* '"Question","Answer"\n'
L_HeaderQuoted ==
    <<"\"","Q","u","e","s","t","i","o","n","\"",",","\"","A","n","s","w","e","r","\"","\n">>

\* the lines a file has before its header
MetaPool == {L_Meta, L_MetaDup, L_MetaSpaced, L_MetaBare}

\* the data lines of a questionnaire
RowPool == {L_Row, L_RowUpper, L_RowAudience, L_RowOther, L_RowNoQuestion, L_RowNoAnswer, L_RowBlankSection, L_RowShort, L_RowQuoted, L_RowTwo, L_BlankLine}

\* the header lines of a questionnaire
HeaderPool == {L_Header, L_HeaderLow, L_Custom}

\* the lines a file is made of
LinePool == {L_Meta, L_Title, L_Header, L_HeaderLow, L_Custom, L_Single, L_NearMiss, L_Row}

\* section_col='Section', question_col='Question', answer_col='Answer'
ColsDefault ==
    [section |-> <<"S","e","c","t","i","o","n">>,
     question |-> <<"Q","u","e","s","t","i","o","n">>,
     answer |-> <<"A","n","s","w","e","r">>]

\* section_col='', question_col='Prompt', answer_col='Reply'
ColsCustom ==
    [section |-> <<>>,
     question |-> <<"P","r","o","m","p","t">>,
     answer |-> <<"R","e","p","l","y">>]

\* section_col='', question_col='', answer_col=''
ColsEmpty ==
    [section |-> <<>>,
     question |-> <<>>,
     answer |-> <<>>]

\* section_col='Item', question_col='Item', answer_col='Item'
ColsSame ==
    [section |-> <<"I","t","e","m">>,
     question |-> <<"I","t","e","m">>,
     answer |-> <<"I","t","e","m">>]

\* the column names a caller passes
ColumnChoices == {ColsDefault, ColsCustom, ColsEmpty, ColsSame}


(***************************************************************************)
(* QuestionnaireParser.parse: the scan for the header row, which also      *)
(* collects the metadata lines into client_info.                           *)
(***************************************************************************)
\* the largest number of lines of a file
MaxLines == 3

\* header_row_index = None
NoHeader == -1

QuestionToken == <<"Q","U","E","S","T","I","O","N">>

AnswerToken == <<"A","N","S","W","E","R">>

\* str.split(sep, 1)
SplitOnce(t, sep) ==
    LET i == Find(t, sep)
    IN  IF i = 0 THEN <<t>>
        ELSE <<SubSeq(t, 1, i - 1), SubSeq(t, i + Len(sep), Len(t))>>

\* [p.strip().upper() for p in line.split(',')]
UpperFields(line) ==
    LET parts == Split(line, <<",">>)
    IN  [i \in 1..Len(parts) |-> Upper(Strip(parts[i]))]

\* IsHeaderLine without the comparison of whole fields
IsHeaderLineBySubstring(line, qcol, acol) ==
    LET line_upper == Upper(line)
    IN  /\ \/ (qcol # <<>> /\ Contains(line_upper, Upper(qcol)))
           \/ Contains(line_upper, QuestionToken)
        /\ \/ (acol # <<>> /\ Contains(line_upper, Upper(acol)))
           \/ Contains(line_upper, AnswerToken)
        /\ Contains(line, <<",">>)

\* the test of lines 50-62: line is the header row for the column names
\* question_col and answer_col
IsHeaderLine(line, qcol, acol) ==
    LET line_upper == Upper(line)
        has_question == \/ (qcol # <<>> /\ Contains(line_upper, Upper(qcol)))
                        \/ Contains(line_upper, QuestionToken)
        has_answer == \/ (acol # <<>> /\ Contains(line_upper, Upper(acol)))
                      \/ Contains(line_upper, AnswerToken)
        parts == UpperFields(line)
    IN  /\ has_question
        /\ has_answer
        /\ Contains(line, <<",">>)
        /\ \E i \in 1..Len(parts) :
               parts[i] = QuestionToken \/ (qcol # <<>> /\ parts[i] = Upper(qcol))
        /\ \E i \in 1..Len(parts) :
               parts[i] = AnswerToken \/ (acol # <<>> /\ parts[i] = Upper(acol))

\* WithMetadata with the line split on every comma
WithMetadataAllCommas(info, line) ==
    LET parts == Split(Strip(line), <<",">>)
    IN  IF Len(parts) >= 2
        THEN DictSet(info, Strip(parts[1]), Strip(parts[2]))
        ELSE info

\* client_info after the metadata test of lines 67-71 on a line that is not
\* the header
WithMetadata(info, line) ==
    IF Contains(line, <<",">>)
    THEN LET parts == SplitOnce(Strip(line), <<",">>)
         IN  IF Len(parts) = 2
             THEN DictSet(info, Strip(parts[1]), Strip(parts[2]))
             ELSE info
    ELSE info

\* one iteration of the loop over all_lines
ScanLine ==
    /\ ppc = "scan"
    /\ line_no <= Len(all_lines)
    /\ IF IsHeaderLine(all_lines[line_no], columns.question, columns.answer)
       THEN /\ header_row_index' = line_no - 1
            /\ header_found' = TRUE
            /\ ppc' = "read"
            /\ UNCHANGED <<client_info, line_no>>
       ELSE /\ client_info' = WithMetadata(client_info, all_lines[line_no])
            /\ line_no' = line_no + 1
            /\ UNCHANGED <<header_row_index, header_found, ppc>>
    /\ UNCHANGED <<all_lines, columns, readVars, genVars, exportVars, mainVars, appVars>>

\* the loop ends without a header: the file is read from its first line
NoHeaderFound ==
    /\ ppc = "scan"
    /\ line_no > Len(all_lines)
    /\ header_row_index' = 0
    /\ ppc' = "read"
    /\ UNCHANGED <<all_lines, columns, line_no, header_found, client_info, readVars, genVars, exportVars, mainVars, appVars>>

(***************************************************************************)
(* QuestionnaireParser.parse: reading the rows.  csv.DictReader reads the  *)
(* text from the header row on; its first record gives the field names and *)
(* every later record that is not empty is a row.                          *)
(***************************************************************************)
\* the largest number of data lines of a questionnaire
MaxRows == 2

\* the largest number of metadata lines before a header
MaxMeta == 3

\* the end of a line, which csv.reader is given after the line's characters
EOL == "EOL"

\* the reader at the start of a record: state is the state of the reader,
\* field the characters of the field being read, fields the fields of the
\* record so far and records the records completed
CsvStart == [state |-> "START_RECORD", field |-> <<>>, fields |-> <<>>, records |-> <<>>]

\* the field being read is saved
SaveField(rd) == Append(rd.fields, rd.field)

\* the record being read is completed with the given fields
EndRecord(rd, fields) ==
    [state |-> "START_RECORD", field |-> <<>>, fields |-> <<>>,
     records |-> Append(rd.records, fields)]

\* csv.reader with the excel dialect takes the character c of a line, or
\* the end of the line
CsvStep(rd, c) ==
    CASE rd.state = "ERROR" -> rd
      [] rd.state = "EAT_CRNL" ->
             IF c = EOL THEN EndRecord(rd, rd.fields)
             ELSE IF c \in {"\n", "\r"} THEN rd
             ELSE [rd EXCEPT !.state = "ERROR"]
      [] rd.state = "IN_QUOTED_FIELD" ->
             IF c = EOL THEN rd
             ELSE IF c = "\""
             THEN [rd EXCEPT !.state = "QUOTE_IN_QUOTED_FIELD"]
             ELSE [rd EXCEPT !.field = Append(rd.field, c)]
      [] rd.state = "QUOTE_IN_QUOTED_FIELD" /\ c = "\"" ->
             [rd EXCEPT !.state = "IN_QUOTED_FIELD", !.field = Append(rd.field, c)]
      [] rd.state = "START_RECORD" /\ c = EOL -> EndRecord(rd, <<>>)
      [] rd.state = "START_RECORD" /\ c \in {"\n", "\r"} ->
             [rd EXCEPT !.state = "EAT_CRNL"]
      [] OTHER ->
             IF c = EOL THEN EndRecord(rd, SaveField(rd))
             ELSE IF c \in {"\n", "\r"}
             THEN [rd EXCEPT !.state = "EAT_CRNL", !.field = <<>>, !.fields = SaveField(rd)]
             ELSE IF c = ","
             THEN [rd EXCEPT !.state = "START_FIELD", !.field = <<>>, !.fields = SaveField(rd)]
             ELSE IF c = "\"" /\ rd.state \in {"START_RECORD", "START_FIELD"}
             THEN [rd EXCEPT !.state = "IN_QUOTED_FIELD"]
             ELSE [rd EXCEPT !.state = "IN_FIELD", !.field = Append(rd.field, c)]

RECURSIVE CsvRun(_, _, _, _)
\* the reader after the characters a..b of the text t, taken in order: the
\* text is read in lines that end after each "\n", and an error ends the
\* reading
CsvRun(t, a, b, rd) ==
    IF a > b THEN rd
    ELSE IF a = b
    THEN IF t[a] = "\n" THEN CsvStep(CsvStep(rd, t[a]), EOL) ELSE CsvStep(rd, t[a])
    ELSE LET mid == (a + b) \div 2
             left == CsvRun(t, a, mid, rd)
         IN  IF left.state = "ERROR" THEN left ELSE CsvRun(t, mid + 1, b, left)

\* csv.reader over the text: the records it yields, and whether it then
\* raises csv.Error.  A last line without "\n" ends where the text ends, and
\* an input that ends inside a quoted field completes the record.
CsvReader(text) ==
    LET ran == CsvRun(text, 1, Len(text), CsvStart)
        rd == IF text # <<>> /\ text[Len(text)] # "\n" THEN CsvStep(ran, EOL) ELSE ran
    IN  [error |-> rd.state = "ERROR",
         records |-> IF rd.state = "IN_QUOTED_FIELD"
                     THEN Append(rd.records, SaveField(rd))
                     ELSE rd.records]

RECURSIVE Join(_)
\* ''.join(lines)
Join(lines) == IF lines = <<>> THEN <<>> ELSE Head(lines) \o Join(Tail(lines))

\* ''.join(all_lines[header_row_index:])
CsvContent(lines, index) == Join(SubSeq(lines, index + 1, Len(lines)))

\* reader.fieldnames if reader.fieldnames else []
FieldNames(records) == IF records = <<>> THEN <<>> ELSE records[1]

\* the rows a DictReader yields: the records after the first, without the
\* empty ones
DataRows(records) ==
    IF records = <<>> THEN <<>>
    ELSE SelectSeq(Tail(records), LAMBDA r : r # <<>>)

\* no reader yet
NoReader == [rows |-> <<>>, error |-> FALSE]

\* a column name variable: None until a header field matches
NoColumn == [found |-> FALSE, name |-> <<>>]

NoColumns == [section |-> NoColumn, question |-> NoColumn, answer |-> NoColumn]

\* the loop of lines 91-99 for one of the three names: the last field of the
\* header that is not empty and equals the wanted name, compared trimmed and
\* lower-cased with the lower-cased name
MatchColumn(available_columns, wanted) ==
    LET hits == {i \in 1..Len(available_columns) :
                    /\ available_columns[i] # <<>>
                    /\ wanted # <<>>
                    /\ Lower(Strip(available_columns[i])) = Lower(wanted)}
    IN  IF hits = {} THEN NoColumn
        ELSE [found |-> TRUE,
              name |-> available_columns[CHOOSE i \in hits : \A j \in hits : j <= i]]

\* a value of the dict DictReader builds for a row: None for a field name
\* the row has no field for
NoneCell == [none |-> TRUE, text |-> <<>>]

TextCell(text) == [none |-> FALSE, text |-> text]

\* row.get(name, ''): dict(zip(fieldnames, row)) keeps the last field of a
\* repeated name, and the names beyond the row's fields are set to None
RowGet(names, row, name) ==
    LET at == {i \in 1..Len(names) : names[i] = name}
        final == CHOOSE i \in at : \A j \in at : j <= i
    IN  IF at = {} THEN TextCell(<<>>)
        ELSE IF final <= Len(row) THEN TextCell(row[final])
        ELSE NoneCell

\* row.get(col_name, '') if col_name else ''
Cell(names, row, col) ==
    IF col.found THEN RowGet(names, row, col.name) ELSE TextCell(<<>>)

\* the section of a row without one left as ''
SectionLeftEmpty == <<>>

\* 'General'
General == <<"G","e","n","e","r","a","l">>

\* the test of line 108 taken on the answer alone
KeepsRowByAnswer(question, answer) == answer # <<>>

\* the test of line 108 negated: the row is not skipped
KeepsRow(question, answer) == question # <<>> /\ answer # <<>>

\* the test of line 122
IsPersonaSection(section) ==
    /\ section # <<>>
    /\ \/ Contains(section, <<"P","e","r","s","o","n","a">>)
       \/ Contains(section, <<"A","u","d","i","e","n","c","e">>)
       \/ Contains(section, <<"C","u","s","t","o","m","e","r">>)

\* the dataset parse returns
Dataset == [client_info |-> client_info, all_qa |-> questions_answers,
            persona_qa |-> persona_section]

\* lines 78-99: the reader is created on the text from the header row on and
\* the three column names are looked up among its field names; csv.Error
\* raised while the header record is read leaves parse
OpenReader ==
    /\ ppc = "read"
    /\ LET csv == CsvReader(CsvContent(all_lines, header_row_index))
           available_columns == FieldNames(csv.records)
       IN  /\ fieldnames' = available_columns
           /\ reader' = [rows |-> DataRows(csv.records), error |-> csv.error]
           /\ col_names' = [section |-> MatchColumn(available_columns, columns.section),
                            question |-> MatchColumn(available_columns, columns.question),
                            answer |-> MatchColumn(available_columns, columns.answer)]
           /\ ppc' = IF csv.records = <<>> /\ csv.error THEN "raised" ELSE "rows"
    /\ row_no' = 1
    /\ UNCHANGED <<all_lines, columns, line_no, header_row_index, header_found, client_info,
                   questions_answers, persona_section, genVars, exportVars, mainVars, appVars>>

\* one iteration of the loop over reader, lines 101-127; strip() of a None
\* value raises AttributeError out of parse
ReadRow ==
    /\ ppc = "rows"
    /\ row_no <= Len(reader.rows)
    /\ LET row == reader.rows[row_no]
           section_cell == Cell(fieldnames, row, col_names.section)
           question_cell == Cell(fieldnames, row, col_names.question)
           answer_cell == Cell(fieldnames, row, col_names.answer)
           question == Strip(question_cell.text)
           answer == Strip(answer_cell.text)
           section == IF Strip(section_cell.text) = <<>> THEN General
                      ELSE Strip(section_cell.text)
           qa == [section |-> section, question |-> question, answer |-> answer]
       IN  IF section_cell.none \/ question_cell.none \/ answer_cell.none
           THEN /\ ppc' = "raised"
                /\ UNCHANGED <<row_no, questions_answers, persona_section>>
           ELSE IF ~KeepsRow(question, answer)
           THEN /\ row_no' = row_no + 1
                /\ UNCHANGED <<ppc, questions_answers, persona_section>>
           ELSE /\ row_no' = row_no + 1
                /\ questions_answers' = Append(questions_answers, qa)
                /\ persona_section' = IF IsPersonaSection(section)
                                      THEN Append(persona_section, qa)
                                      ELSE persona_section
                /\ UNCHANGED ppc
    /\ UNCHANGED <<all_lines, columns, line_no, header_row_index, header_found, client_info,
                   fieldnames, col_names, reader, genVars, exportVars, mainVars, appVars>>

\* the loop over reader ends and parse returns the dataset, lines 129-133,
\* unless the reader ends with csv.Error
ReturnDataset ==
    /\ ppc = "rows"
    /\ row_no > Len(reader.rows)
    /\ ppc' = IF reader.error THEN "raised" ELSE "returned"
    /\ UNCHANGED <<all_lines, columns, line_no, header_row_index, header_found, client_info,
                   readVars, genVars, exportVars, mainVars, appVars>>

\* the files of at most n lines
Files(n) == UNION {[1..k -> LinePool] : k \in 0..n}

\* the questionnaires of a header line and at most n data lines
Questionnaires(n) ==
    {<<h>> \o rows : h \in HeaderPool, rows \in UNION {[1..k -> RowPool] : k \in 0..n}}

\* the files of at most n lines of metadata, then nothing, a header, or a header
\* and a line that reads like metadata
Prologues(n) ==
    {meta \o rest : meta \in UNION {[1..k -> MetaPool] : k \in 0..n},
                    rest \in {<<>>, <<L_Header>>, <<L_Header, L_MetaAfter>>}}

ParseInit ==
    /\ all_lines \in Files(MaxLines) \cup Questionnaires(MaxRows) \cup Prologues(MaxMeta)
    /\ columns \in ColumnChoices
    /\ line_no = 1
    /\ header_row_index = NoHeader
    /\ header_found = FALSE
    /\ client_info = <<>>
    /\ fieldnames = <<>>
    /\ col_names = NoColumns
    /\ reader = NoReader
    /\ row_no = 1
    /\ questions_answers = <<>>
    /\ persona_section = <<>>
    /\ ppc = "scan"

ParseNext ==
    \/ ScanLine
    \/ NoHeaderFound
    \/ OpenReader
    \/ ReadRow
    \/ ReturnDataset

(***************************************************************************)
(* The inputs of PersonaCSVExporter.export: personas as parsed JSON values, *)
(* client_info as the parser builds it, and the text of the file that is   *)
(* at output_path before the call.                                         *)
(***************************************************************************)
\* {"persona_name": "Ann", "persona_type": "Primary", "demographics": {"age_range": "30-40", "gender": "F", "location": "UK, EU", "income_level": "high", "net_worth": "1M", "education": "BSc", "occupation": "CTO", "family_status": "single"}, "psychographics": {"values": ["trust", "a, b"], "motivations": ["say \"go\""], "lifestyle": "busy", "interests": ["x; y", "z"]}, "goals": ["grow", "save, spend"], "challenges": ["time"], "needs": ["a \"b\"", "c; d"], "pain_points": ["cost", "risk"], "behavior": {"research_style": "deep", "decision_making": "slow", "communication_preferences": "mail", "online_behavior": "lurks"}, "quote": "\"Go, now\"", "key_characteristics": ["keen", "calm, kind"]}
P_Full ==
    JDict(<<[k |-> <<"p","e","r","s","o","n","a","_","n","a","m","e">>, v |-> JStr(<<"A","n","n">>)],[k |-> <<"p","e","r","s","o","n","a","_","t","y","p","e">>, v |-> JStr(<<"P","r","i","m","a","r","y">>)],[k |-> <<"d","e","m","o","g","r","a","p","h","i","c","s">>, v |-> JDict(<<[k |-> <<"a","g","e","_","r","a","n","g","e">>, v |-> JStr(<<"3","0","-","4","0">>)],[k |-> <<"g","e","n","d","e","r">>, v |-> JStr(<<"F">>)],[k |-> <<"l","o","c","a","t","i","o","n">>, v |-> JStr(<<"U","K",","," ","E","U">>)],[k |-> <<"i","n","c","o","m","e","_","l","e","v","e","l">>, v |-> JStr(<<"h","i","g","h">>)],[k |-> <<"n","e","t","_","w","o","r","t","h">>, v |-> JStr(<<"1","M">>)],[k |-> <<"e","d","u","c","a","t","i","o","n">>, v |-> JStr(<<"B","S","c">>)],[k |-> <<"o","c","c","u","p","a","t","i","o","n">>, v |-> JStr(<<"C","T","O">>)],[k |-> <<"f","a","m","i","l","y","_","s","t","a","t","u","s">>, v |-> JStr(<<"s","i","n","g","l","e">>)]>>)],[k |-> <<"p","s","y","c","h","o","g","r","a","p","h","i","c","s">>, v |-> JDict(<<[k |-> <<"v","a","l","u","e","s">>, v |-> JList(<<JStr(<<"t","r","u","s","t">>),JStr(<<"a",","," ","b">>)>>)],[k |-> <<"m","o","t","i","v","a","t","i","o","n","s">>, v |-> JList(<<JStr(<<"s","a","y"," ","\"","g","o","\"">>)>>)],[k |-> <<"l","i","f","e","s","t","y","l","e">>, v |-> JStr(<<"b","u","s","y">>)],[k |-> <<"i","n","t","e","r","e","s","t","s">>, v |-> JList(<<JStr(<<"x",";"," ","y">>),JStr(<<"z">>)>>)]>>)],[k |-> <<"g","o","a","l","s">>, v |-> JList(<<JStr(<<"g","r","o","w">>),JStr(<<"s","a","v","e",","," ","s","p","e","n","d">>)>>)],[k |-> <<"c","h","a","l","l","e","n","g","e","s">>, v |-> JList(<<JStr(<<"t","i","m","e">>)>>)],[k |-> <<"n","e","e","d","s">>, v |-> JList(<<JStr(<<"a"," ","\"","b","\"">>),JStr(<<"c",";"," ","d">>)>>)],[k |-> <<"p","a","i","n","_","p","o","i","n","t","s">>, v |-> JList(<<JStr(<<"c","o","s","t">>),JStr(<<"r","i","s","k">>)>>)],[k |-> <<"b","e","h","a","v","i","o","r">>, v |-> JDict(<<[k |-> <<"r","e","s","e","a","r","c","h","_","s","t","y","l","e">>, v |-> JStr(<<"d","e","e","p">>)],[k |-> <<"d","e","c","i","s","i","o","n","_","m","a","k","i","n","g">>, v |-> JStr(<<"s","l","o","w">>)],[k |-> <<"c","o","m","m","u","n","i","c","a","t","i","o","n","_","p","r","e","f","e","r","e","n","c","e","s">>, v |-> JStr(<<"m","a","i","l">>)],[k |-> <<"o","n","l","i","n","e","_","b","e","h","a","v","i","o","r">>, v |-> JStr(<<"l","u","r","k","s">>)]>>)],[k |-> <<"q","u","o","t","e">>, v |-> JStr(<<"\"","G","o",","," ","n","o","w","\"">>)],[k |-> <<"k","e","y","_","c","h","a","r","a","c","t","e","r","i","s","t","i","c","s">>, v |-> JList(<<JStr(<<"k","e","e","n">>),JStr(<<"c","a","l","m",","," ","k","i","n","d">>)>>)]>>)

\* {"persona_name": "Busy Ben"}
P_NameOnly ==
    JDict(<<[k |-> <<"p","e","r","s","o","n","a","_","n","a","m","e">>, v |-> JStr(<<"B","u","s","y"," ","B","e","n">>)]>>)

\* {"persona_name": "Cy", "psychographics": {"values": "trust; care", "interests": ""}, "goals": "grow, fast", "key_characteristics": "keen"}
P_Strings ==
    JDict(<<[k |-> <<"p","e","r","s","o","n","a","_","n","a","m","e">>, v |-> JStr(<<"C","y">>)],[k |-> <<"p","s","y","c","h","o","g","r","a","p","h","i","c","s">>, v |-> JDict(<<[k |-> <<"v","a","l","u","e","s">>, v |-> JStr(<<"t","r","u","s","t",";"," ","c","a","r","e">>)],[k |-> <<"i","n","t","e","r","e","s","t","s">>, v |-> JStr(<<>>)]>>)],[k |-> <<"g","o","a","l","s">>, v |-> JStr(<<"g","r","o","w",","," ","f","a","s","t">>)],[k |-> <<"k","e","y","_","c","h","a","r","a","c","t","e","r","i","s","t","i","c","s">>, v |-> JStr(<<"k","e","e","n">>)]>>)

\* {"nickname": "Zed", "goals": [], "behavior": {}, "demographics": {"age": "9"}}
P_ExtraKeys ==
    JDict(<<[k |-> <<"n","i","c","k","n","a","m","e">>, v |-> JStr(<<"Z","e","d">>)],[k |-> <<"g","o","a","l","s">>, v |-> JList(<<>>)],[k |-> <<"b","e","h","a","v","i","o","r">>, v |-> JDict(<<>>)],[k |-> <<"d","e","m","o","g","r","a","p","h","i","c","s">>, v |-> JDict(<<[k |-> <<"a","g","e">>, v |-> JStr(<<"9">>)]>>)]>>)

\* {"persona_name": null, "demographics": {"age_range": 30}, "needs": 5, "quote": true, "goals": ["line\nbreak"]}
P_Scalars ==
    JDict(<<[k |-> <<"p","e","r","s","o","n","a","_","n","a","m","e">>, v |-> JNone],[k |-> <<"d","e","m","o","g","r","a","p","h","i","c","s">>, v |-> JDict(<<[k |-> <<"a","g","e","_","r","a","n","g","e">>, v |-> JInt(<<"3","0">>)]>>)],[k |-> <<"n","e","e","d","s">>, v |-> JInt(<<"5">>)],[k |-> <<"q","u","o","t","e">>, v |-> JTrue],[k |-> <<"g","o","a","l","s">>, v |-> JList(<<JStr(<<"l","i","n","e","\n","b","r","e","a","k">>)>>)]>>)

\* {"persona_name": "Bob", "demographics": null}
P_NullGroup ==
    JDict(<<[k |-> <<"p","e","r","s","o","n","a","_","n","a","m","e">>, v |-> JStr(<<"B","o","b">>)],[k |-> <<"d","e","m","o","g","r","a","p","h","i","c","s">>, v |-> JNone]>>)

\* {"persona_name": "Dee", "goals": ["grow", 1]}
P_MixedList ==
    JDict(<<[k |-> <<"p","e","r","s","o","n","a","_","n","a","m","e">>, v |-> JStr(<<"D","e","e">>)],[k |-> <<"g","o","a","l","s">>, v |-> JList(<<JStr(<<"g","r","o","w">>),JInt(<<"1">>)>>)]>>)

\* "Eve"
P_NotObject ==
    JStr(<<"E","v","e">>)

\* the personas a list is made of
PersonaPool == {P_Full, P_NameOnly, P_Strings, P_ExtraKeys, P_Scalars, P_NullGroup, P_MixedList, P_NotObject}

\* {}
CI_None ==
    <<>>

\* {"Client Name": "Acme", "Product Name": "Widget, Pro"}
CI_Both ==
    <<[k |-> <<"C","l","i","e","n","t"," ","N","a","m","e">>, v |-> <<"A","c","m","e">>], [k |-> <<"P","r","o","d","u","c","t"," ","N","a","m","e">>, v |-> <<"W","i","d","g","e","t",","," ","P","r","o">>]>>

\* {"Client Name": "Acme", "Persona": "What?,Speed"}
CI_ClientOnly ==
    <<[k |-> <<"C","l","i","e","n","t"," ","N","a","m","e">>, v |-> <<"A","c","m","e">>], [k |-> <<"P","e","r","s","o","n","a">>, v |-> <<"W","h","a","t","?",",","S","p","e","e","d">>]>>

\* the client_info dicts export is given
ClientInfos == {CI_None, CI_Both, CI_ClientOnly}

\* 'old\n', the text of a file that is already at output_path
OldContent == <<"o","l","d","\n">>


(***************************************************************************)
(* PersonaCSVExporter.export: the rows built from the personas and the     *)
(* text csv.DictWriter writes for them.                                    *)
(***************************************************************************)
\* the largest number of personas of a list
MaxPersonas == 2

\* the largest number of calls of export on the same arguments
MaxExportCalls == 2

\* the columns of the rows export builds, lines 408-458, in the order the keys
\* are inserted: the column name, the nested group the value is taken from
\* (from client_info, the persona itself or a group of it), the key, and whether
\* a list value is joined
ExportColumns ==
    <<[name |-> <<"C","l","i","e","n","t"," ","N","a","m","e">>,
       from |-> "client_info", group |-> <<>>,
       key |-> <<"C","l","i","e","n","t"," ","N","a","m","e">>, joined |-> FALSE],
      [name |-> <<"P","r","o","d","u","c","t"," ","N","a","m","e">>,
       from |-> "client_info", group |-> <<>>,
       key |-> <<"P","r","o","d","u","c","t"," ","N","a","m","e">>, joined |-> FALSE],
      [name |-> <<"P","e","r","s","o","n","a"," ","N","a","m","e">>,
       from |-> "persona", group |-> <<>>,
       key |-> <<"p","e","r","s","o","n","a","_","n","a","m","e">>, joined |-> FALSE],
      [name |-> <<"P","e","r","s","o","n","a"," ","T","y","p","e">>,
       from |-> "persona", group |-> <<>>,
       key |-> <<"p","e","r","s","o","n","a","_","t","y","p","e">>, joined |-> FALSE],
      [name |-> <<"A","g","e"," ","R","a","n","g","e">>,
       from |-> "group", group |-> <<"d","e","m","o","g","r","a","p","h","i","c","s">>,
       key |-> <<"a","g","e","_","r","a","n","g","e">>, joined |-> FALSE],
      [name |-> <<"G","e","n","d","e","r">>,
       from |-> "group", group |-> <<"d","e","m","o","g","r","a","p","h","i","c","s">>,
       key |-> <<"g","e","n","d","e","r">>, joined |-> FALSE],
      [name |-> <<"L","o","c","a","t","i","o","n">>,
       from |-> "group", group |-> <<"d","e","m","o","g","r","a","p","h","i","c","s">>,
       key |-> <<"l","o","c","a","t","i","o","n">>, joined |-> FALSE],
      [name |-> <<"I","n","c","o","m","e"," ","L","e","v","e","l">>,
       from |-> "group", group |-> <<"d","e","m","o","g","r","a","p","h","i","c","s">>,
       key |-> <<"i","n","c","o","m","e","_","l","e","v","e","l">>, joined |-> FALSE],
      [name |-> <<"N","e","t"," ","W","o","r","t","h">>,
       from |-> "group", group |-> <<"d","e","m","o","g","r","a","p","h","i","c","s">>,
       key |-> <<"n","e","t","_","w","o","r","t","h">>, joined |-> FALSE],
      [name |-> <<"E","d","u","c","a","t","i","o","n">>,
       from |-> "group", group |-> <<"d","e","m","o","g","r","a","p","h","i","c","s">>,
       key |-> <<"e","d","u","c","a","t","i","o","n">>, joined |-> FALSE],
      [name |-> <<"O","c","c","u","p","a","t","i","o","n">>,
       from |-> "group", group |-> <<"d","e","m","o","g","r","a","p","h","i","c","s">>,
       key |-> <<"o","c","c","u","p","a","t","i","o","n">>, joined |-> FALSE],
      [name |-> <<"F","a","m","i","l","y"," ","S","t","a","t","u","s">>,
       from |-> "group", group |-> <<"d","e","m","o","g","r","a","p","h","i","c","s">>,
       key |-> <<"f","a","m","i","l","y","_","s","t","a","t","u","s">>, joined |-> FALSE],
      [name |-> <<"V","a","l","u","e","s">>,
       from |-> "group", group |-> <<"p","s","y","c","h","o","g","r","a","p","h","i","c","s">>,
       key |-> <<"v","a","l","u","e","s">>, joined |-> TRUE],
      [name |-> <<"M","o","t","i","v","a","t","i","o","n","s">>,
       from |-> "group", group |-> <<"p","s","y","c","h","o","g","r","a","p","h","i","c","s">>,
       key |-> <<"m","o","t","i","v","a","t","i","o","n","s">>, joined |-> TRUE],
      [name |-> <<"L","i","f","e","s","t","y","l","e">>,
       from |-> "group", group |-> <<"p","s","y","c","h","o","g","r","a","p","h","i","c","s">>,
       key |-> <<"l","i","f","e","s","t","y","l","e">>, joined |-> FALSE],
      [name |-> <<"I","n","t","e","r","e","s","t","s">>,
       from |-> "group", group |-> <<"p","s","y","c","h","o","g","r","a","p","h","i","c","s">>,
       key |-> <<"i","n","t","e","r","e","s","t","s">>, joined |-> TRUE],
      [name |-> <<"G","o","a","l","s">>,
       from |-> "persona", group |-> <<>>,
       key |-> <<"g","o","a","l","s">>, joined |-> TRUE],
      [name |-> <<"C","h","a","l","l","e","n","g","e","s">>,
       from |-> "persona", group |-> <<>>,
       key |-> <<"c","h","a","l","l","e","n","g","e","s">>, joined |-> TRUE],
      [name |-> <<"N","e","e","d","s">>,
       from |-> "persona", group |-> <<>>,
       key |-> <<"n","e","e","d","s">>, joined |-> TRUE],
      [name |-> <<"P","a","i","n"," ","P","o","i","n","t","s">>,
       from |-> "persona", group |-> <<>>,
       key |-> <<"p","a","i","n","_","p","o","i","n","t","s">>, joined |-> TRUE],
      [name |-> <<"R","e","s","e","a","r","c","h"," ","S","t","y","l","e">>,
       from |-> "group", group |-> <<"b","e","h","a","v","i","o","r">>,
       key |-> <<"r","e","s","e","a","r","c","h","_","s","t","y","l","e">>, joined |-> FALSE],
      [name |-> <<"D","e","c","i","s","i","o","n"," ","M","a","k","i","n","g">>,
       from |-> "group", group |-> <<"b","e","h","a","v","i","o","r">>,
       key |-> <<"d","e","c","i","s","i","o","n","_","m","a","k","i","n","g">>, joined |-> FALSE],
      [name |-> <<"C","o","m","m","u","n","i","c","a","t","i","o","n"," ","P","r","e","f","e","r","e","n","c","e","s">>,
       from |-> "group", group |-> <<"b","e","h","a","v","i","o","r">>,
       key |-> <<"c","o","m","m","u","n","i","c","a","t","i","o","n","_","p","r","e","f","e","r","e","n","c","e","s">>, joined |-> FALSE],
      [name |-> <<"O","n","l","i","n","e"," ","B","e","h","a","v","i","o","r">>,
       from |-> "group", group |-> <<"b","e","h","a","v","i","o","r">>,
       key |-> <<"o","n","l","i","n","e","_","b","e","h","a","v","i","o","r">>, joined |-> FALSE],
      [name |-> <<"Q","u","o","t","e">>,
       from |-> "persona", group |-> <<>>,
       key |-> <<"q","u","o","t","e">>, joined |-> FALSE],
      [name |-> <<"K","e","y"," ","C","h","a","r","a","c","t","e","r","i","s","t","i","c","s">>,
       from |-> "persona", group |-> <<>>,
       key |-> <<"k","e","y","_","c","h","a","r","a","c","t","e","r","i","s","t","i","c","s">>, joined |-> TRUE]>>


\* bool(value)
Truthy(value) ==
    CASE value.t = "NoneType" -> FALSE
      [] value.t = "bool" -> value = JTrue
      [] value.t = "int" -> \E i \in 1..Len(value.v) : value.v[i] # "0"
      [] OTHER -> value.v # <<>>

RECURSIVE JoinWith(_, _)
\* sep.join(texts)
JoinWith(sep, texts) ==
    IF texts = <<>> THEN <<>>
    ELSE IF Len(texts) = 1 THEN texts[1]
    ELSE texts[1] \o sep \o JoinWith(sep, Tail(texts))

\* ', ' in the place of '; '
ListSeparatorComma == <<",", " ">>

\* '; '
ListSeparator == <<";", " ">>

\* the default of the .get calls of a row: ''
EmptyText == JStr(<<>>)

\* client_info as a dict of str values
ClientDict(info) == JDict([i \in 1..Len(info) |-> [k |-> info[i].k, v |-> JStr(info[i].v)]])

\* the dict a column's key is looked up in: client_info, the persona, or
\* persona.get(group, {})
Holder(col, persona, info) ==
    IF col.from = "client_info" THEN ClientDict(info)
    ELSE IF col.from = "persona" THEN persona
    ELSE DictGet(persona, col.group, JDict(<<>>))

\* the value of a column of base_row: a list value of a joined column is
\* joined with '; ', any other value is taken as it is
ColumnValue(col, persona, info) ==
    LET value == DictGet(Holder(col, persona, info), col.key, EmptyText)
    IN  IF col.joined /\ value.t = "list"
        THEN JStr(JoinWith(ListSeparator, [i \in 1..Len(value.v) |-> value.v[i].v]))
        ELSE value

\* building base_row raises: .get on a persona or a group that is not a
\* dict (AttributeError), or join on a list with an element that is not a
\* str (TypeError)
RowRaises(persona) ==
    \/ persona.t # "dict"
    \/ \E c \in 1..Len(ExportColumns) :
           LET col == ExportColumns[c]
               holder == Holder(col, persona, <<>>)
               value == DictGet(holder, col.key, EmptyText)
           IN  \/ holder.t # "dict"
               \/ /\ col.joined
                  /\ value.t = "list"
                  /\ \E i \in 1..Len(value.v) : value.v[i].t # "str"

\* base_row for a persona, as the values of the columns in order
BaseRow(persona, info) ==
    [c \in 1..Len(ExportColumns) |-> ColumnValue(ExportColumns[c], persona, info)]

\* rows with the rows of the later personas dropped
BaseRowsFirstOnly(personas, info) == <<BaseRow(personas[1], info)>>

\* rows: one base_row per persona, in order
BaseRows(personas, info) == [i \in 1..Len(personas) |-> BaseRow(personas[i], info)]

\* the characters repr() escapes
ReprEscapes(c, quote) ==
    CASE c = "\\" -> <<"\\", "\\">>
      [] c = "\n" -> <<"\\", "n">>
      [] c = "\r" -> <<"\\", "r">>
      [] c = "\t" -> <<"\\", "t">>
      [] c = quote -> <<"\\", c>>
      [] OTHER -> <<c>>

\* repr() of a str: in double quotes when it holds a single quote and no
\* double quote, in single quotes otherwise
ReprStr(chars) ==
    LET has(q) == \E i \in 1..Len(chars) : chars[i] = q
        quote == IF has("'") /\ ~has("\"") THEN "\"" ELSE "'"
    IN  <<quote>> \o JoinWith(<<>>, [i \in 1..Len(chars) |-> ReprEscapes(chars[i], quote)])
        \o <<quote>>

RECURSIVE Repr(_)
\* repr() of a value
Repr(value) ==
    CASE value.t = "str" -> ReprStr(value.v)
      [] value.t = "int" -> value.v
      [] value.t = "bool" -> IF value = JTrue THEN <<"T","r","u","e">> ELSE <<"F","a","l","s","e">>
      [] value.t = "NoneType" -> <<"N","o","n","e">>
      [] value.t = "list" ->
             <<"[">> \o JoinWith(<<",", " ">>, [i \in 1..Len(value.v) |-> Repr(value.v[i])])
             \o <<"]">>
      [] value.t = "dict" ->
             <<"{">> \o JoinWith(<<",", " ">>,
                                 [i \in 1..Len(value.v) |->
                                     ReprStr(value.v[i].k) \o <<":", " ">> \o Repr(value.v[i].v)])
             \o <<"}">>

\* the text csv.writer writes for a value: '' for None, the str itself, and
\* str(value) for any other value
CellText(value) ==
    CASE value.t = "NoneType" -> <<>>
      [] value.t = "str" -> value.v
      [] OTHER -> Repr(value)

\* QuoteField without the quoting
QuoteFieldNever(text) == text

\* a field as csv.writer writes it (excel dialect, QUOTE_MINIMAL): in double
\* quotes, with each double quote doubled, when it holds the delimiter, a
\* double quote or a character of the line terminator
QuoteField(text) ==
    IF \E i \in 1..Len(text) : text[i] \in {",", "\"", "\r", "\n"}
    THEN <<"\"">> \o JoinWith(<<"\"", "\"">>, Split(text, <<"\"">>)) \o <<"\"">>
    ELSE text

\* writer.writerow: the fields joined with ',' and ended with '\r\n'
WriteRow(texts) ==
    JoinWith(<<",">>, [i \in 1..Len(texts) |-> QuoteField(texts[i])]) \o <<"\r", "\n">>

\* fieldnames = list(rows[0].keys())
ExportFieldNames == [c \in 1..Len(ExportColumns) |-> ExportColumns[c].name]

\* writer.writeheader() and writer.writerows(rows)
CsvText(rows) ==
    WriteRow(ExportFieldNames)
    \o Join([i \in 1..Len(rows) |-> WriteRow([c \in 1..Len(rows[i]) |-> CellText(rows[i][c])])])

\* no file at output_path
NoFile == [exists |-> FALSE, content |-> <<>>]

\* open(output_path, 'a') and the writes
OpenForAppending(file, text) == [exists |-> TRUE, content |-> file.content \o text]

\* open(output_path, 'w') and the writes: the file holds the text written
OpenForWriting(file, text) == [exists |-> TRUE, content |-> text]

\* export with the file opened before the personas are looked at
ExportEffectOpeningFirst(personas, info, file) ==
    IF ~Truthy(personas)
    THEN [outcome |-> "returned", rows |-> <<>>, file |-> OpenForWriting(file, <<>>)]
    ELSE IF personas.t # "list" \/ \E i \in 1..Len(personas.v) : RowRaises(personas.v[i])
    THEN [outcome |-> "raised", rows |-> <<>>, file |-> OpenForWriting(file, <<>>)]
    ELSE LET rows == BaseRows(personas.v, info)
         IN  [outcome |-> "returned", rows |-> rows,
              file |-> OpenForWriting(file, CsvText(rows))]

\* one call export(personas, info) with the given file at output_path: how
\* the call ends, the rows built and the file after it.  A truthy value
\* that is not a list raises where it is iterated or where its first
\* element is asked for a key.
ExportEffect(personas, info, file) ==
    IF ~Truthy(personas)
    THEN [outcome |-> "returned", rows |-> <<>>, file |-> file]
    ELSE IF personas.t # "list" \/ \E i \in 1..Len(personas.v) : RowRaises(personas.v[i])
    THEN [outcome |-> "raised", rows |-> <<>>, file |-> file]
    ELSE LET rows == BaseRows(personas.v, info)
         IN  [outcome |-> "returned", rows |-> rows,
              file |-> IF rows # <<>> THEN OpenForWriting(file, CsvText(rows)) ELSE file]

\* the values export can be given as personas: the lists of at most n
\* personas, and values that are not lists
PersonaLists(n) ==
    {JList(l) : l \in UNION {[1..k -> PersonaPool] : k \in 0..n}}
    \cup {JNone, JStr(<<"E","v","e">>), P_NameOnly, JInt(<<"5">>)}

\* the file at output_path before the first call
FilesBefore == {NoFile, [exists |-> TRUE, content |-> OldContent]}

ExportInit ==
    /\ export_personas \in PersonaLists(MaxPersonas)
    /\ export_client_info \in ClientInfos
    /\ output_file \in FilesBefore
    /\ export_rows = <<>>
    /\ export_outcome = "none"
    /\ outputs = <<>>
    /\ epc = "call"

\* one call export(export_personas, export_client_info), lines 397-471
Export ==
    /\ epc = "call"
    /\ LET effect == ExportEffect(export_personas, export_client_info, output_file)
       IN  /\ export_rows' = effect.rows
           /\ export_outcome' = effect.outcome
           /\ output_file' = effect.file
           /\ outputs' = Append(outputs, effect.file)
    /\ epc' = "done"
    /\ UNCHANGED <<export_personas, export_client_info, genVars, parseVars, mainVars, appVars>>

\* the caller calls export again with the same arguments
ExportAgain ==
    /\ epc = "done"
    /\ Len(outputs) < MaxExportCalls
    /\ epc' = "call"
    /\ UNCHANGED <<export_personas, export_client_info, output_file, export_rows,
                   export_outcome, outputs, genVars, parseVars, mainVars, appVars>>

ExportNext ==
    \/ Export
    \/ ExportAgain

\* export is not running
ExportIdle ==
    /\ export_personas = JNone
    /\ export_client_info = <<>>
    /\ output_file = NoFile
    /\ export_rows = <<>>
    /\ export_outcome = "none"
    /\ outputs = <<>>
    /\ epc = "idle"

(***************************************************************************)
(* main: the command line run.  It parses the input file with the default  *)
(* column names, generates with the default max_retries and exports the    *)
(* personas; an exception that main does not catch ends the process with   *)
(* exit code 1.                                                            *)
(***************************************************************************)
\* the default of the parameter max_retries of generate_personas
DefaultMaxRetries == 3

\* the input files of a run
MainFiles ==
    {<<L_Meta, L_Header, L_Row>>, <<L_Header, L_RowShort>>, <<L_Meta, L_Row>>, <<>>}

MainInit ==
    /\ input_exists \in BOOLEAN
    /\ api_key_set \in BOOLEAN
    /\ mpc = "start"
    /\ exit_code = -1
    /\ export_calls = <<>>
    /\ all_lines \in MainFiles
    /\ output_file \in FilesBefore

\* lines 501-504: the input file is missing
MainMissingInput ==
    /\ mpc = "start"
    /\ ~input_exists
    /\ mpc' = "exited"
    /\ exit_code' = 1
    /\ UNCHANGED <<input_exists, api_key_set, export_calls, genVars, parseVars, exportVars, appVars>>

\* lines 515-517: parse is called on the input file
MainParse ==
    /\ mpc = "start"
    /\ input_exists
    /\ mpc' = "parse"
    /\ ppc' = "scan"
    /\ UNCHANGED <<input_exists, api_key_set, exit_code, export_calls, all_lines, columns,
                   line_no, header_row_index, header_found, client_info, readVars,
                   genVars, exportVars, appVars>>

\* parse raises, which main does not catch
MainParseRaised ==
    /\ mpc = "parse"
    /\ ppc = "raised"
    /\ mpc' = "exited"
    /\ exit_code' = 1
    /\ UNCHANGED <<input_exists, api_key_set, export_calls, genVars, parseVars, exportVars, appVars>>

\* lines 524-526: the generator is constructed, which raises without an API
\* key (lines 146-152, caught at line 534), and generate_personas is called
MainGenerate ==
    /\ mpc = "parse"
    /\ ppc = "returned"
    /\ IF api_key_set
       THEN /\ mpc' = "generate"
            /\ pc' = "loop"
            /\ max_retries' = DefaultMaxRetries
            /\ UNCHANGED exit_code
       ELSE /\ mpc' = "exited"
            /\ exit_code' = 1
            /\ UNCHANGED <<pc, max_retries>>
    /\ UNCHANGED <<input_exists, api_key_set, export_calls, attempt, calls, sleeps, result,
                   raised, last_exception, last, history, parseVars, exportVars, appVars>>

\* lines 534-536: generate_personas raised
MainGenerateRaised ==
    /\ mpc = "generate"
    /\ pc = "raised"
    /\ mpc' = "exited"
    /\ exit_code' = 1
    /\ UNCHANGED <<input_exists, api_key_set, export_calls, genVars, parseVars, exportVars, appVars>>

\* the test of line 528 with only None taken as no personas
NoPersonasOnlyNone(personas) == personas = JNone

\* line 528: not personas
NoPersonas(personas) == ~Truthy(personas)

\* lines 528-530: generate_personas returned a value that is not truthy
MainNoPersonas ==
    /\ mpc = "generate"
    /\ pc = "returned"
    /\ NoPersonas(result)
    /\ mpc' = "exited"
    /\ exit_code' = 1
    /\ UNCHANGED <<input_exists, api_key_set, export_calls, genVars, parseVars, exportVars, appVars>>

\* len(personas) raises TypeError: the value is truthy and has no length
\* (an int or True); line 532 of main and line 419 of app.py
LenRaises(personas) == Truthy(personas) /\ personas.t \in {"int", "bool"}

\* lines 532-536: generate_personas returned a truthy value without a
\* length; len(personas) of line 532 raises TypeError inside the try, the
\* except of line 534 ends main with exit code 1 and the exporter is not
\* called
MainLenRaised ==
    /\ mpc = "generate"
    /\ pc = "returned"
    /\ ~NoPersonas(result)
    /\ LenRaises(result)
    /\ mpc' = "exited"
    /\ exit_code' = 1
    /\ UNCHANGED <<input_exists, api_key_set, export_calls, genVars, parseVars, exportVars, appVars>>

\* lines 538-541: the personas have a length, and the exporter is called
\* with them and the client_info of the dataset
MainExport ==
    /\ mpc = "generate"
    /\ pc = "returned"
    /\ ~NoPersonas(result)
    /\ ~LenRaises(result)
    /\ mpc' = "export"
    /\ export_personas' = result
    /\ export_client_info' = Dataset.client_info
    /\ export_calls' = Append(export_calls, result)
    /\ epc' = "call"
    /\ UNCHANGED <<input_exists, api_key_set, exit_code, output_file, export_rows,
                   export_outcome, outputs, genVars, parseVars, appVars>>

\* line 543 and the end of main, or export raised, which main does not catch
MainEnd ==
    /\ mpc = "export"
    /\ epc = "done"
    /\ mpc' = "exited"
    /\ exit_code' = IF export_outcome = "raised" THEN 1 ELSE 0
    /\ UNCHANGED <<input_exists, api_key_set, export_calls, genVars, parseVars, exportVars, appVars>>

\* main is not running
MainIdle ==
    /\ input_exists = TRUE
    /\ api_key_set = TRUE
    /\ mpc = "idle"
    /\ exit_code = -1
    /\ export_calls = <<>>

(***************************************************************************)
(* The web app (app.py): one session.  Every interaction with a widget     *)
(* starts a run of the script from its top with st.session_state kept: a   *)
(* file put in the uploader, a click on the Generate button, and the       *)
(* st.rerun() after a generation that succeeded.  A run handles the file   *)
(* in the uploader (lines 307-403) and then the Generate section (lines    *)
(* 405-507).                                                               *)
(***************************************************************************)
\* the largest number of runs the user starts in a session
MaxAppRuns == 3

\* response.text = '[{"persona_name":"Ann","goals":["grow","save, spend"]}]'
R_Persona ==
    <<"[","{","\"","p","e","r","s","o","n","a","_","n","a","m","e","\"",":","\"","A","n","n","\"",",","\"","g","o","a","l","s","\"",":","[","\"","g","r","o","w","\"",",","\"","s","a","v","e",","," ","s","p","e","n","d","\"","]","}","]">>

\* response.text = '{"personas":[{"persona_name":"Bob"},{"persona_name":"Cy","quote":"Go, now"}]}'
R_PersonaWrapped ==
    <<"{","\"","p","e","r","s","o","n","a","s","\"",":","[","{","\"","p","e","r","s","o","n","a","_","n","a","m","e","\"",":","\"","B","o","b","\"","}",",","{","\"","p","e","r","s","o","n","a","_","n","a","m","e","\"",":","\"","C","y","\"",",","\"","q","u","o","t","e","\"",":","\"","G","o",","," ","n","o","w","\"","}","]","}">>

\* response.text = '[{"persona_name":"Dee","demographics":null}]'
R_PersonaNullGroup ==
    <<"[","{","\"","p","e","r","s","o","n","a","_","n","a","m","e","\"",":","\"","D","e","e","\"",",","\"","d","e","m","o","g","r","a","p","h","i","c","s","\"",":","n","u","l","l","}","]">>

\* the response texts of the model in a session
AppResponses ==
    {R_Persona, R_PersonaWrapped, R_PersonaNullGroup, R_EmptyListText, R_PersonasString,
     R_PersonasNumber}

\* the messages of the exceptions of the model call in a session
AppErrors == {E_429}

\* the files the user uploads
AppFiles ==
    {<<L_Meta, L_Header, L_Row>>, <<L_Header, L_RowShort>>, <<L_Title, L_Single>>,
     <<L_HeaderQuoted, L_RowTwo>>, <<>>}

\* no file in the uploader
NoUpload == [present |-> FALSE, lines |-> <<>>]

\* 'questionnaire_data' not in st.session_state
NoQuestionnaire ==
    [set |-> FALSE, data |-> [client_info |-> <<>>, all_qa |-> <<>>, persona_qa |-> <<>>],
     file |-> <<>>, run |-> 0]

\* st.session_state.client_info = None
NoClientInfo == [set |-> FALSE, items |-> <<>>]

\* st.session_state.csv_data = None
NoCsv == [set |-> FALSE, text |-> <<>>]

\* the position of the header row the app finds, lines 318-337: the first line
\* with a field QUESTION and a field ANSWER, 0 for none
AppHeaderRow(lines) ==
    LET hits == {i \in 1..Len(lines) : IsHeaderLine(lines[i], <<>>, <<>>)}
    IN  IF hits = {} THEN 0 ELSE CHOOSE i \in hits : \A j \in hits : i <= j

\* pd.read_csv from the header row, or from the start of the file without
\* one, lines 339-348: the records of the text that are not empty; the first
\* of them gives df.columns
ReadCsv(lines) ==
    LET from == IF AppHeaderRow(lines) = 0 THEN 0 ELSE AppHeaderRow(lines) - 1
    IN  SelectSeq(CsvReader(CsvContent(lines, from)).records, LAMBDA r : r # <<>>)

\* pd.read_csv raises: there is nothing to take the columns from
ReadCsvRaises(lines) == ReadCsv(lines) = <<>>

\* the column the loop of lines 369-376 leaves for a name: the last column
\* equal to it when lower-cased and stripped, '' for none
DetectColumn(csv_columns, wanted) ==
    LET hits == {i \in 1..Len(csv_columns) : Strip(Lower(csv_columns[i])) = wanted}
    IN  IF hits = {} THEN <<>>
        ELSE csv_columns[CHOOSE i \in hits : \A j \in hits : j <= i]

\* the columns the parser is given, lines 365-387
DetectedColumns(csv_columns) ==
    [section |-> DetectColumn(csv_columns, <<"s","e","c","t","i","o","n">>),
     question |-> DetectColumn(csv_columns, <<"q","u","e","s","t","i","o","n">>),
     answer |-> DetectColumn(csv_columns, <<"a","n","s","w","e","r">>)]

\* the file is read and its columns have question and answer, lines 350-352
FileIsValid(lines) ==
    /\ ~ReadCsvRaises(lines)
    /\ DetectedColumns(ReadCsv(lines)[1]).question # <<>>
    /\ DetectedColumns(ReadCsv(lines)[1]).answer # <<>>

\* a row of the text df.to_csv(index=False) gives: the fields quoted as
\* csv.writer quotes them, joined with ',' and ended with '\n'
ToCsvRow(texts) ==
    JoinWith(<<",">>, [i \in 1..Len(texts) |-> QuoteField(texts[i])]) \o <<"\n">>

\* pd.DataFrame(rows).to_csv(index=False), lines 480-481, for rows of str
\* values
ToCsv(rows) ==
    ToCsvRow(ExportFieldNames)
    \o Join([i \in 1..Len(rows) |-> ToCsvRow([c \in 1..Len(rows[i]) |-> CellText(rows[i][c])])])

\* personas and len(personas) > 0, line 419
HasPersonas(personas) == Truthy(personas) /\ personas.t \in {"list", "dict", "str"}

\* the loop of lines 430-478 raises: the personas are not a list (the
\* elements of a str or of a dict have no get), or a row cannot be built
FlattenRaises(personas) ==
    \/ personas.t # "list"
    \/ \E i \in 1..Len(personas.v) : RowRaises(personas.v[i])

\* the session at its start, lines 216-232
AppInit ==
    /\ uploaded_file = NoUpload
    /\ clicked = FALSE
    /\ api_key \in BOOLEAN
    /\ questionnaire_data = NoQuestionnaire
    /\ session_client_info = NoClientInfo
    /\ personas_generated = FALSE
    /\ personas_data = JNone
    /\ csv_data = NoCsv
    /\ offered = FALSE
    /\ generate_input = NoQuestionnaire
    /\ run_no = 0
    /\ apc = "wait"

\* the user puts a file in the uploader, which starts a run
AppUpload(lines) ==
    /\ apc = "wait"
    /\ run_no < MaxAppRuns
    /\ uploaded_file' = [present |-> TRUE, lines |-> lines]
    /\ clicked' = FALSE
    /\ run_no' = run_no + 1
    /\ apc' = "file"
    /\ UNCHANGED <<api_key, questionnaire_data, session_client_info, personas_generated,
                   personas_data, csv_data, offered, generate_input>>
    /\ UNCHANGED <<genVars, parseVars, exportVars, mainVars>>

\* the user clicks the Generate button the latest run rendered, which starts
\* a run with the same file in the uploader
AppClick ==
    /\ apc = "wait"
    /\ run_no < MaxAppRuns
    /\ offered
    /\ clicked' = TRUE
    /\ run_no' = run_no + 1
    /\ apc' = "file"
    /\ UNCHANGED <<uploaded_file, api_key, questionnaire_data, session_client_info,
                   personas_generated, personas_data, csv_data, offered, generate_input>>
    /\ UNCHANGED <<genVars, parseVars, exportVars, mainVars>>

\* lines 307-387: the file in the uploader is read and validated and, when
\* it has the columns, a QuestionnaireParser is made for it and parse is
\* called; a file that cannot be read or has not the columns is reported
\* and the run goes on to the Generate section
AppReadFile ==
    /\ apc = "file"
    /\ IF FileIsValid(uploaded_file.lines)
       THEN /\ apc' = "parse"
            /\ all_lines' = uploaded_file.lines
            /\ columns' = DetectedColumns(ReadCsv(uploaded_file.lines)[1])
            /\ line_no' = 1
            /\ header_row_index' = NoHeader
            /\ header_found' = FALSE
            /\ client_info' = <<>>
            /\ fieldnames' = <<>>
            /\ col_names' = NoColumns
            /\ reader' = NoReader
            /\ row_no' = 1
            /\ questions_answers' = <<>>
            /\ persona_section' = <<>>
            /\ ppc' = "scan"
       ELSE /\ apc' = "generate section"
            /\ UNCHANGED parseVars
    /\ UNCHANGED <<uploaded_file, clicked, api_key, questionnaire_data, session_client_info,
                   personas_generated, personas_data, csv_data, offered, generate_input,
                   run_no>>
    /\ UNCHANGED <<genVars, exportVars, mainVars>>

\* lines 388-393: parse returned and its dataset is stored in the session
AppParsed ==
    /\ apc = "parse"
    /\ ppc = "returned"
    /\ session_client_info' = [set |-> TRUE, items |-> Dataset.client_info]
    /\ questionnaire_data' = [set |-> TRUE, data |-> Dataset,
                              file |-> uploaded_file.lines, run |-> run_no]
    /\ apc' = "generate section"
    /\ UNCHANGED <<uploaded_file, clicked, api_key, personas_generated, personas_data,
                   csv_data, offered, generate_input, run_no>>
    /\ UNCHANGED <<genVars, parseVars, exportVars, mainVars>>

\* lines 395-397: parse raised, which is reported
AppParseRaised ==
    /\ apc = "parse"
    /\ ppc = "raised"
    /\ apc' = "generate section"
    /\ UNCHANGED <<uploaded_file, clicked, api_key, questionnaire_data, session_client_info,
                   personas_generated, personas_data, csv_data, offered, generate_input,
                   run_no>>
    /\ UNCHANGED <<genVars, parseVars, exportVars, mainVars>>

\* lines 405-417: with questionnaire data in the session and an API key the
\* Generate button is rendered, and in a run started by a click on it
\* generate_personas is called with the questionnaire data of the session
AppGenerateSection ==
    /\ apc = "generate section"
    /\ offered' = (questionnaire_data.set /\ api_key)
    /\ IF questionnaire_data.set /\ api_key /\ clicked
       THEN /\ apc' = "generate"
            /\ generate_input' = questionnaire_data
            /\ max_retries' = DefaultMaxRetries
            /\ attempt' = 0
            /\ calls' = 0
            /\ sleeps' = <<>>
            /\ pc' = "loop"
            /\ result' = NoResult
            /\ raised' = NoError
            /\ last_exception' = NoException
            /\ last' = NoOutcome
            /\ history' = <<>>
       ELSE /\ apc' = "wait"
            /\ UNCHANGED <<generate_input, genVars>>
    /\ UNCHANGED <<uploaded_file, clicked, api_key, questionnaire_data, session_client_info,
                   personas_generated, personas_data, csv_data, run_no>>
    /\ UNCHANGED <<parseVars, exportVars, mainVars>>

\* lines 417-491: generate_personas returned.  A value with personas is
\* stored before it is flattened; the CSV text is stored after the rows are
\* built, and st.rerun() starts the next run; an exception of len() or of
\* the flattening is caught at line 493
AppGenerated ==
    /\ apc = "generate"
    /\ pc = "returned"
    /\ IF LenRaises(result) \/ ~HasPersonas(result)
       THEN /\ apc' = "wait"
            /\ UNCHANGED <<personas_generated, personas_data, session_client_info,
                           csv_data, clicked, run_no>>
       ELSE /\ personas_generated' = TRUE
            /\ personas_data' = result
            /\ session_client_info' = [set |-> TRUE, items |-> generate_input.data.client_info]
            /\ IF FlattenRaises(result)
               THEN /\ apc' = "wait"
                    /\ UNCHANGED <<csv_data, clicked, run_no>>
               ELSE /\ csv_data' = [set |-> TRUE,
                                    text |-> ToCsv(BaseRows(result.v,
                                                            generate_input.data.client_info))]
                    /\ clicked' = FALSE
                    /\ run_no' = run_no + 1
                    /\ apc' = "file"
    /\ UNCHANGED <<uploaded_file, api_key, questionnaire_data, offered, generate_input>>
    /\ UNCHANGED <<genVars, parseVars, exportVars, mainVars>>

\* lines 493-505: generate_personas raised, which is reported
AppGenerateRaised ==
    /\ apc = "generate"
    /\ pc = "raised"
    /\ apc' = "wait"
    /\ UNCHANGED <<uploaded_file, clicked, api_key, questionnaire_data, session_client_info,
                   personas_generated, personas_data, csv_data, offered, generate_input,
                   run_no>>
    /\ UNCHANGED <<genVars, parseVars, exportVars, mainVars>>

\* the web app is not running
AppIdle ==
    /\ uploaded_file = NoUpload
    /\ clicked = FALSE
    /\ api_key = FALSE
    /\ questionnaire_data = NoQuestionnaire
    /\ session_client_info = NoClientInfo
    /\ personas_generated = FALSE
    /\ personas_data = JNone
    /\ csv_data = NoCsv
    /\ offered = FALSE
    /\ generate_input = NoQuestionnaire
    /\ run_no = 0
    /\ apc = "idle"

\* generate_personas is not running
GenIdle ==
    /\ max_retries = 0
    /\ attempt = 0
    /\ calls = 0
    /\ sleeps = <<>>
    /\ pc = "idle"
    /\ result = NoResult
    /\ raised = NoError
    /\ last_exception = NoException
    /\ last = NoOutcome
    /\ history = <<>>

\* parse is not running
ParseIdle ==
    /\ all_lines = <<>>
    /\ columns = ColsDefault
    /\ line_no = 1
    /\ header_row_index = NoHeader
    /\ header_found = FALSE
    /\ client_info = <<>>
    /\ fieldnames = <<>>
    /\ col_names = NoColumns
    /\ reader = NoReader
    /\ row_no = 1
    /\ questions_answers = <<>>
    /\ persona_section = <<>>
    /\ ppc = "idle"

(***************************************************************************)
(* The specifications: one call of generate_personas, one call of parse,   *)
(* repeated calls of export, and one run of main.                          *)
(***************************************************************************)
Init == GenInit /\ ParseIdle /\ ExportIdle /\ MainIdle /\ AppIdle

Next == GenNext

Spec == Init /\ [][Next]_vars

ParserInit == ParseInit /\ GenIdle /\ ExportIdle /\ MainIdle /\ AppIdle

ParserNext == ParseNext

ParserSpec == ParserInit /\ [][ParserNext]_vars

ExporterInit == ExportInit /\ GenIdle /\ ParseIdle /\ MainIdle /\ AppIdle

ExporterNext == ExportNext

ExporterSpec == ExporterInit /\ [][ExporterNext]_vars

\* the parser, the generator and the exporter as main leaves them before it
\* calls them
MainRunInit ==
    /\ MainInit
    /\ GenIdle
    /\ AppIdle
    /\ columns = ColsDefault
    /\ line_no = 1
    /\ header_row_index = NoHeader
    /\ header_found = FALSE
    /\ client_info = <<>>
    /\ fieldnames = <<>>
    /\ col_names = NoColumns
    /\ reader = NoReader
    /\ row_no = 1
    /\ questions_answers = <<>>
    /\ persona_section = <<>>
    /\ ppc = "idle"
    /\ export_personas = JNone
    /\ export_client_info = <<>>
    /\ export_rows = <<>>
    /\ export_outcome = "none"
    /\ outputs = <<>>
    /\ epc = "idle"

\* with max_retries = 3 the loop of generate_personas always ends in a
\* return or a raise
MainNext ==
    \/ MainMissingInput
    \/ MainParse
    \/ ScanLine
    \/ NoHeaderFound
    \/ OpenReader
    \/ ReadRow
    \/ ReturnDataset
    \/ MainParseRaised
    \/ MainGenerate
    \/ \E msg \in ErrorMessages : AttemptRaises(msg)
    \/ \E kind \in {"missing", "text"} : AttemptNoText(kind)
    \/ \E raw \in Responses : AttemptText(raw)
    \/ MainGenerateRaised
    \/ MainNoPersonas
    \/ MainLenRaised
    \/ MainExport
    \/ Export
    \/ MainEnd

MainSpec == MainRunInit /\ [][MainNext]_vars

AppSessionInit == AppInit /\ GenIdle /\ ParseIdle /\ ExportIdle /\ MainIdle

AppNext ==
    \/ \E lines \in AppFiles : AppUpload(lines)
    \/ AppClick
    \/ AppReadFile
    \/ ScanLine
    \/ NoHeaderFound
    \/ OpenReader
    \/ ReadRow
    \/ ReturnDataset
    \/ AppParsed
    \/ AppParseRaised
    \/ AppGenerateSection
    \/ \E msg \in AppErrors : AttemptRaises(msg)
    \/ \E raw \in AppResponses : AttemptText(raw)
    \/ AppGenerated
    \/ AppGenerateRaised

AppSpec == AppSessionInit /\ [][AppNext]_vars

(***************************************************************************)
(* Properties of generate_personas.  calls is the number of attempts made; *)
(* the latest attempt has the zero-based index calls - 1 and is the last   *)
(* one allowed when calls = max_retries.                                   *)
(***************************************************************************)
PersonasKey == <<"p","e","r","s","o","n","a","s">>

\* the latest model call returned the non-empty text of a response
LastIsText == last.kind = "text" /\ last.text # <<>>

\* the JSON the latest response text is parsed to after extraction and repair
LastParsed == JsonLoads(RepairedText(last.text))

\* the first n model calls all failed with a retryable error
FirstAllRetryable(n) ==
    /\ Len(history) >= n
    /\ \A i \in 1..n : history[i] = "retryable_error"

\* C1: with max_retries >= 4, three retryable failures and then a response
\* that is well-formed JSON (a list or an object): exactly 3 sleeps in total,
\* and the value returned is the persona list of that 4th response.
C1_ThreeFailuresThenSuccess ==
    ( /\ max_retries >= 4
      /\ Len(history) = 4
      /\ FirstAllRetryable(3)
      /\ LastIsText
      /\ JsonLoads(last.text).ok
      /\ IsPersonasContainer(JsonLoads(last.text).val) )
    => ( /\ pc = "returned"
         /\ Len(sleeps) = 3
         /\ result = PersonasOf(JsonLoads(last.text).val) )

\* C2: a model-call failure whose lower-cased message holds none of the
\* transient substrings is raised on the attempt where it happens, whatever
\* the attempt index: the run has ended, no sleep was taken for it, and the
\* error carries the number of attempts made so far.
C2_NonRetryableRaisedAtOnce ==
    /\ ( last.kind = "error" /\ ~IsTransient(last.text) )
       => ( /\ pc = "raised"
            /\ raised = [kind |-> "after", attempts |-> Len(history), cause |-> last.text]
            /\ calls = Len(history)
            /\ Len(sleeps) = Len(history) - 1 )
    /\ \A i \in 1..Len(history) :
           history[i] = "other_error" => (i = Len(history) /\ pc = "raised")

C2_Witness ==
    /\ pc = "raised"
    /\ last = [kind |-> "error", text |-> E_InvalidKey]
    /\ history = <<"retryable_error", "text", "other_error">>
    /\ raised.attempts = 3
    /\ max_retries = 4

\* C3: at most max_retries model calls are made; when every attempt fails
\* with a retryable error there are exactly max_retries calls and
\* max_retries - 1 sleeps, and then the error carrying max_retries is raised.
C3_AttemptsBounded ==
    /\ calls <= max_retries
    /\ ( max_retries >= 1 /\ Len(history) = max_retries /\ FirstAllRetryable(max_retries) )
       => ( /\ pc = "raised"
            /\ calls = max_retries
            /\ Len(sleeps) = max_retries - 1
            /\ raised.kind = "after"
            /\ raised.attempts = max_retries )

C3_Witness ==
    /\ max_retries = 3
    /\ history = <<"retryable_error", "retryable_error", "retryable_error">>
    /\ calls = 3
    /\ Len(sleeps) = 2
    /\ pc = "raised"

\* C4: a response without text is treated as a transient failure: when
\* attempts remain, the function has slept and goes on to the next call
\* instead of raising.
C4_EmptyTextRetried ==
    ( /\ last.kind \in {"text", "missing"}
      /\ last.text = <<>>
      /\ calls < max_retries )
    => ( /\ pc = "loop"
         /\ attempt = calls
         /\ Len(sleeps) = calls )

\* the salvage parser finds nothing it can parse in text
NothingToSalvage(text) ==
    \/ FindAllObjects(text, 1) = <<>>
    \/ ~JsonLoads(LargestMatch(FindAllObjects(text, 1))).ok

\* C5: when the repaired text of an attempt is not valid JSON, the function
\* sleeps and goes on to the next call on every attempt before the last; on
\* the last attempt it returns the salvage parser's result for the raw text,
\* an empty list when nothing is parseable; it never raises.
C5_JsonSyntaxFailure ==
    ( LastIsText /\ ~LastParsed.ok )
    => /\ pc # "raised"
       /\ calls < max_retries
          => ( /\ pc = "loop"
               /\ attempt = calls
               /\ Len(sleeps) = calls
               /\ result = NoResult )
       /\ calls = max_retries
          => ( /\ pc = "returned"
               /\ Len(sleeps) = calls - 1
               /\ result = ParseTextResponse(last.text)
               /\ NothingToSalvage(last.text) => result = EmptyList )

\* two attempts whose repaired text is not valid JSON, with max_retries = 2:
\* one sleep after the first, and the second returns what the salvage parser
\* finds in the raw text, outside the fence the repaired text came from
C5_Witness ==
    /\ max_retries = 2
    /\ history = <<"text", "text">>
    /\ last.text = R_SalvageRaw
    /\ ~LastParsed.ok
    /\ sleeps = <<1>>
    /\ pc = "returned"
    /\ result = JList(<<JInt(<<"1">>)>>)

\* C6: a response whose repaired text parses to a JSON value that is neither
\* a list nor an object is handled as a parse failure: retried while
\* attempts remain, an empty list on the last attempt, never raised.
C6_ScalarIsParseFailure ==
    ( LastIsText /\ LastParsed.ok /\ ~IsPersonasContainer(LastParsed.val) )
    => /\ pc # "raised"
       /\ calls < max_retries => (pc = "loop" /\ Len(sleeps) = calls)
       /\ calls = max_retries => (pc = "returned" /\ result = EmptyList)

\* the number of closing braces and brackets text ends with
RECURSIVE TrailingClosers(_)
TrailingClosers(text) ==
    IF text # <<>> /\ text[Len(text)] \in {"}", "]"}
    THEN 1 + TrailingClosers(SubSeq(text, 1, Len(text) - 1))
    ELSE 0

\* cut is doc without some of the closing braces and brackets it ends with
IsCloserCut(cut, doc) ==
    \E k \in 0..TrailingClosers(doc) : cut = SubSeq(doc, 1, Len(doc) - k)

\* C7: a well-formed JSON list or object that lost only trailing closing
\* braces and brackets is repaired: the repaired text parses and the
\* personas of the whole document are returned.
C7_TruncationRepaired ==
    \A doc \in Responses :
        ( /\ JsonLoads(doc).ok
          /\ IsPersonasContainer(JsonLoads(doc).val)
          /\ LastIsText
          /\ IsCloserCut(last.text, doc) )
        => ( /\ LastParsed.ok
             /\ pc = "returned"
             /\ result = PersonasOf(JsonLoads(doc).val) )

\* the parts of text inside code fences: every second part of the split
FencedBlocks(text) ==
    LET parts == Split(text, Fence)
    IN  [i \in 1..(Len(parts) \div 2) |-> parts[2 * i]]

JsonTag == <<"j","s","o","n">>

\* the first of the blocks numbered in hits, <<>> if hits is empty
FirstBlock(blocks, hits) ==
    IF hits = {} THEN <<>>
    ELSE blocks[CHOOSE i \in hits : \A j \in hits : i <= j]

\* the fenced blocks tagged json
JsonBlocks(blocks) == {i \in 1..Len(blocks) : StartsWith(blocks[i], JsonTag)}

\* the fenced blocks holding both an opening brace and an opening bracket
JsonLikeBlocks(blocks) ==
    {i \in 1..Len(blocks) : Contains(blocks[i], <<"{">>) /\ Contains(blocks[i], <<"[">>)}

\* C8: step 1 yields the content of the fenced json block when there is
\* one; otherwise the content of the first fenced block holding both an
\* opening brace and an opening bracket, never text outside a fence.
C8_FenceContentOnly ==
    LastIsText =>
        LET text == Strip(last.text)
            blocks == FencedBlocks(text)
            jsonBlock == FirstBlock(blocks, JsonBlocks(blocks))
            likeBlock == FirstBlock(blocks, JsonLikeBlocks(blocks))
        IN  IF JsonBlocks(blocks) # {}
            THEN StripFences(text) = Strip(SubSeq(jsonBlock, Len(JsonTag) + 1, Len(jsonBlock)))
            ELSE JsonLikeBlocks(blocks) # {} => StripFences(text) = Strip(likeBlock)

\* C9: when the extracted text parses to a list, that list is returned
\* unchanged; when it parses to an object, the value under "personas" is
\* returned, an empty list when the key is absent; the function returns on
\* that attempt, without a sleep.
C9_ListOrPersonasReturned ==
    ( LastIsText /\ LastParsed.ok /\ LastParsed.val.t \in {"list", "dict"} )
    => /\ pc = "returned"
       /\ calls = Len(history)
       /\ Len(sleeps) = calls - 1
       /\ LastParsed.val.t = "list" => result = LastParsed.val
       /\ LastParsed.val.t = "dict" =>
              IF \E i \in 1..Len(LastParsed.val.v) : LastParsed.val.v[i].k = PersonasKey
              THEN \E i \in 1..Len(LastParsed.val.v) :
                       /\ LastParsed.val.v[i].k = PersonasKey
                       /\ result = LastParsed.val.v[i].v
              ELSE result = EmptyList

\* after a retried failure, a fenced object with a personas list is parsed on
\* the second attempt and its list returned, with the one earlier sleep
C9_Witness ==
    /\ history = <<"retryable_error", "text">>
    /\ last.text = R_JsonFenced
    /\ LastParsed.val.t = "dict"
    /\ pc = "returned"
    /\ sleeps = <<1>>
    /\ result = JList(<<JDict(<<[k |-> <<"a">>, v |-> JInt(<<"1">>)]>>)>>)

(***************************************************************************)
(* Properties of the header scan of QuestionnaireParser.parse.             *)
(***************************************************************************)
\* line has a field equal to QUESTION and a field equal to ANSWER
HasExactTokens(line) ==
    LET fields == UpperFields(line)
    IN  /\ \E i \in 1..Len(fields) : fields[i] = QuestionToken
        /\ \E i \in 1..Len(fields) : fields[i] = AnswerToken

\* line holds a comma, a field equal to QUESTION or to the upper-cased
\* non-empty question column name, and a field equal to ANSWER or to the
\* upper-cased non-empty answer column name
HasColumnFields(line, cols) ==
    LET fields == UpperFields(line)
    IN  /\ \E i \in 1..Len(line) : line[i] = ","
        /\ \E i \in 1..Len(fields) :
               \/ fields[i] = QuestionToken
               \/ (cols.question # <<>> /\ fields[i] = Upper(cols.question))
        /\ \E i \in 1..Len(fields) :
               \/ fields[i] = AnswerToken
               \/ (cols.answer # <<>> /\ fields[i] = Upper(cols.answer))

\* the scan has chosen the first of the lines numbered in hits, and no line
\* when hits is empty
ChoosesFirst(hits) ==
    IF hits = {} THEN ~header_found
    ELSE /\ header_found
         /\ \E i \in hits :
                /\ header_row_index = i - 1
                /\ \A j \in hits : i <= j

\* C10 as stated: whatever the column names, the header is the first line
\* with a field equal to QUESTION and a field equal to ANSWER, and a line
\* without such fields is never chosen.
C10_HeaderIsFirstExactTokens ==
    ppc = "read" =>
        ChoosesFirst({i \in 1..Len(all_lines) : HasExactTokens(all_lines[i])})

\* C10 amended: the header is the first line that holds a comma, a field
\* equal to QUESTION or to the upper-cased non-empty question column name,
\* and a field equal to ANSWER or to the upper-cased non-empty answer column
\* name; a line with those tokens only inside other words is never chosen.
C10_HeaderIsFirstColumnFields ==
    ppc = "read" =>
        ChoosesFirst({i \in 1..Len(all_lines) : HasColumnFields(all_lines[i], columns)})

\* with the column names Prompt and Reply: a title line with QUESTIONNAIRE
\* and ANSWERS is passed over, and the line Prompt,Reply is chosen before the
\* later Section,Question,Answer line
C10_Witness ==
    /\ ppc = "read"
    /\ columns = ColsCustom
    /\ all_lines = <<L_Title, L_Custom, L_Header>>
    /\ header_found
    /\ header_row_index = 1

(***************************************************************************)
(* Properties of the rows QuestionnaireParser.parse reads.                 *)
(***************************************************************************)
\* the text is empty or whitespace only
IsBlank(text) == Strip(text) = <<>>

\* C11: in the dataset parse returns, every record of all_qa and of
\* persona_qa has a question and an answer that are not empty after
\* trimming; the same holds of the records collected while the rows are read.
C11_NoBlankQuestionOrAnswer ==
    ppc \in {"rows", "returned"} =>
        /\ \A i \in 1..Len(Dataset.all_qa) :
               ~IsBlank(Dataset.all_qa[i].question) /\ ~IsBlank(Dataset.all_qa[i].answer)
        /\ \A i \in 1..Len(Dataset.persona_qa) :
               ~IsBlank(Dataset.persona_qa[i].question) /\ ~IsBlank(Dataset.persona_qa[i].answer)

\* a row with a whitespace-only question is read and dropped, and the row
\* after it is the only record returned
C11_Witness ==
    /\ ppc = "returned"
    /\ columns = ColsDefault
    /\ all_lines = <<L_Header, L_RowNoQuestion, L_Row>>
    /\ row_no = 3
    /\ Len(Dataset.all_qa) = 1
    /\ Dataset.all_qa[1].question = <<"W","h","a","t","?">>
    /\ Dataset.persona_qa = Dataset.all_qa

\* the lower-cased section name holds persona, audience or customer
MentionsPersona(section) ==
    \/ Contains(Lower(section), <<"p","e","r","s","o","n","a">>)
    \/ Contains(Lower(section), <<"a","u","d","i","e","n","c","e">>)
    \/ Contains(Lower(section), <<"c","u","s","t","o","m","e","r">>)

\* C12: in the dataset parse returns, persona_qa is the subsequence of all_qa
\* of the records whose section name holds persona, audience or customer,
\* compared case-insensitively.
C12_PersonaQaCaseInsensitive ==
    ppc = "returned" =>
        Dataset.persona_qa = SelectSeq(Dataset.all_qa, LAMBDA qa : MentionsPersona(qa.section))

\* a header field names the role: trimmed and lower-cased it equals the
\* lower-cased name
NamesColumn(field, name) == field # <<>> /\ Lower(Strip(field)) = Lower(name)

\* some header field carries the name the caller supplied
SuppliedNameMatches(name) ==
    name # <<>> /\ \E i \in 1..Len(fieldnames) : NamesColumn(fieldnames[i], name)

\* the column resolved for a role is a header field literally named so
UsesLiteralColumn(col, literal) ==
    (\E i \in 1..Len(fieldnames) : NamesColumn(fieldnames[i], literal))
        => (col.found /\ NamesColumn(col.name, literal))

\* C13: once the columns are resolved, a role whose supplied name (empty
\* names included) matches no header field uses the header column literally
\* named Section, Question or Answer when the header has one.
C13_FallsBackToLiteralColumns ==
    ppc \in {"rows", "returned"} =>
        /\ ~SuppliedNameMatches(columns.section)
               => UsesLiteralColumn(col_names.section, ColsDefault.section)
        /\ ~SuppliedNameMatches(columns.question)
               => UsesLiteralColumn(col_names.question, ColsDefault.question)
        /\ ~SuppliedNameMatches(columns.answer)
               => UsesLiteralColumn(col_names.answer, ColsDefault.answer)

\* C14: parse does not return a dataset when no line qualifies as a header
\* row and neither the supplied question name nor the supplied answer name
\* is among the fields of the first line.
C14_FailsWithoutHeaderAndColumns ==
    ( /\ ppc \in {"rows", "returned", "raised"}
      /\ all_lines # <<>>
      /\ ~header_found
      /\ ~SuppliedNameMatches(columns.question)
      /\ ~SuppliedNameMatches(columns.answer) )
        => ppc # "returned"

(***************************************************************************)
(* Claims about PersonaCSVExporter.export.                                 *)
(***************************************************************************)
\* the list fields of a persona: the column each is written to, the group it
\* is nested in (none for a field of the persona itself) and its key
ListFields ==
    <<[column |-> <<"V","a","l","u","e","s">>,
       group |-> <<"p","s","y","c","h","o","g","r","a","p","h","i","c","s">>, key |-> <<"v","a","l","u","e","s">>],
      [column |-> <<"M","o","t","i","v","a","t","i","o","n","s">>,
       group |-> <<"p","s","y","c","h","o","g","r","a","p","h","i","c","s">>, key |-> <<"m","o","t","i","v","a","t","i","o","n","s">>],
      [column |-> <<"I","n","t","e","r","e","s","t","s">>,
       group |-> <<"p","s","y","c","h","o","g","r","a","p","h","i","c","s">>, key |-> <<"i","n","t","e","r","e","s","t","s">>],
      [column |-> <<"G","o","a","l","s">>,
       group |-> <<>>, key |-> <<"g","o","a","l","s">>],
      [column |-> <<"C","h","a","l","l","e","n","g","e","s">>,
       group |-> <<>>, key |-> <<"c","h","a","l","l","e","n","g","e","s">>],
      [column |-> <<"N","e","e","d","s">>,
       group |-> <<>>, key |-> <<"n","e","e","d","s">>],
      [column |-> <<"P","a","i","n"," ","P","o","i","n","t","s">>,
       group |-> <<>>, key |-> <<"p","a","i","n","_","p","o","i","n","t","s">>],
      [column |-> <<"K","e","y"," ","C","h","a","r","a","c","t","e","r","i","s","t","i","c","s">>,
       group |-> <<>>, key |-> <<"k","e","y","_","c","h","a","r","a","c","t","e","r","i","s","t","i","c","s">>]>>

\* the scalar fields of a persona, in the same form
ScalarFields ==
    <<[column |-> <<"P","e","r","s","o","n","a"," ","N","a","m","e">>,
       group |-> <<>>, key |-> <<"p","e","r","s","o","n","a","_","n","a","m","e">>],
      [column |-> <<"P","e","r","s","o","n","a"," ","T","y","p","e">>,
       group |-> <<>>, key |-> <<"p","e","r","s","o","n","a","_","t","y","p","e">>],
      [column |-> <<"A","g","e"," ","R","a","n","g","e">>,
       group |-> <<"d","e","m","o","g","r","a","p","h","i","c","s">>, key |-> <<"a","g","e","_","r","a","n","g","e">>],
      [column |-> <<"G","e","n","d","e","r">>,
       group |-> <<"d","e","m","o","g","r","a","p","h","i","c","s">>, key |-> <<"g","e","n","d","e","r">>],
      [column |-> <<"L","o","c","a","t","i","o","n">>,
       group |-> <<"d","e","m","o","g","r","a","p","h","i","c","s">>, key |-> <<"l","o","c","a","t","i","o","n">>],
      [column |-> <<"I","n","c","o","m","e"," ","L","e","v","e","l">>,
       group |-> <<"d","e","m","o","g","r","a","p","h","i","c","s">>, key |-> <<"i","n","c","o","m","e","_","l","e","v","e","l">>],
      [column |-> <<"N","e","t"," ","W","o","r","t","h">>,
       group |-> <<"d","e","m","o","g","r","a","p","h","i","c","s">>, key |-> <<"n","e","t","_","w","o","r","t","h">>],
      [column |-> <<"E","d","u","c","a","t","i","o","n">>,
       group |-> <<"d","e","m","o","g","r","a","p","h","i","c","s">>, key |-> <<"e","d","u","c","a","t","i","o","n">>],
      [column |-> <<"O","c","c","u","p","a","t","i","o","n">>,
       group |-> <<"d","e","m","o","g","r","a","p","h","i","c","s">>, key |-> <<"o","c","c","u","p","a","t","i","o","n">>],
      [column |-> <<"F","a","m","i","l","y"," ","S","t","a","t","u","s">>,
       group |-> <<"d","e","m","o","g","r","a","p","h","i","c","s">>, key |-> <<"f","a","m","i","l","y","_","s","t","a","t","u","s">>],
      [column |-> <<"L","i","f","e","s","t","y","l","e">>,
       group |-> <<"p","s","y","c","h","o","g","r","a","p","h","i","c","s">>, key |-> <<"l","i","f","e","s","t","y","l","e">>],
      [column |-> <<"R","e","s","e","a","r","c","h"," ","S","t","y","l","e">>,
       group |-> <<"b","e","h","a","v","i","o","r">>, key |-> <<"r","e","s","e","a","r","c","h","_","s","t","y","l","e">>],
      [column |-> <<"D","e","c","i","s","i","o","n"," ","M","a","k","i","n","g">>,
       group |-> <<"b","e","h","a","v","i","o","r">>, key |-> <<"d","e","c","i","s","i","o","n","_","m","a","k","i","n","g">>],
      [column |-> <<"C","o","m","m","u","n","i","c","a","t","i","o","n"," ","P","r","e","f","e","r","e","n","c","e","s">>,
       group |-> <<"b","e","h","a","v","i","o","r">>, key |-> <<"c","o","m","m","u","n","i","c","a","t","i","o","n","_","p","r","e","f","e","r","e","n","c","e","s">>],
      [column |-> <<"O","n","l","i","n","e"," ","B","e","h","a","v","i","o","r">>,
       group |-> <<"b","e","h","a","v","i","o","r">>, key |-> <<"o","n","l","i","n","e","_","b","e","h","a","v","i","o","r">>],
      [column |-> <<"Q","u","o","t","e">>,
       group |-> <<>>, key |-> <<"q","u","o","t","e">>]>>

\* the position of the column of the given name in a row
ColumnIndex(name) == CHOOSE c \in 1..Len(ExportFieldNames) : ExportFieldNames[c] = name

\* whether the persona has the field, and the value it has for it
HasField(persona, field) ==
    IF field.group = <<>> THEN DictHas(persona, field.key)
    ELSE /\ DictHas(persona, field.group)
         /\ DictHas(DictGet(persona, field.group, JNone), field.key)

\* the value the persona has for the field
FieldOf(persona, field) ==
    IF field.group = <<>> THEN DictGet(persona, field.key, JNone)
    ELSE DictGet(DictGet(persona, field.group, JNone), field.key, JNone)

\* a list whose elements are all strings
IsListOfStrings(value) ==
    /\ value.t = "list"
    /\ \A i \in 1..Len(value.v) : value.v[i].t = "str"

\* the elements of a list of strings joined in order with '; '
JoinedWithSemicolon(value) ==
    JoinWith(<<";", " ">>, [i \in 1..Len(value.v) |-> value.v[i].v])

\* C15: in the row export builds for a persona, a list field that is a list
\* of strings is its elements joined in order with '; ', a list field that
\* is a plain string is that string, and a scalar field is the value the
\* persona has for it.
C15_ListsJoinedScalarsCopied ==
    (epc = "done" /\ export_rows # <<>>) =>
        \A i \in 1..Len(export_rows) :
            LET persona == export_personas.v[i]
                row == export_rows[i]
            IN  /\ \A f \in 1..Len(ListFields) :
                       LET field == ListFields[f]
                           value == FieldOf(persona, field)
                           cell == row[ColumnIndex(field.column)]
                       IN  HasField(persona, field) =>
                               /\ IsListOfStrings(value) =>
                                      cell = JStr(JoinedWithSemicolon(value))
                               /\ value.t = "str" => cell = value
                /\ \A f \in 1..Len(ScalarFields) :
                       LET field == ScalarFields[f]
                       IN  HasField(persona, field) =>
                               row[ColumnIndex(field.column)] = FieldOf(persona, field)

\* a persona with lists of several strings and one with plain strings in the
\* list fields have been exported
C15_Witness ==
    /\ epc = "done"
    /\ export_personas = JList(<<P_Full, P_Strings>>)
    /\ Len(export_rows) = 2
    /\ export_rows[1][ColumnIndex(<<"G","o","a","l","s">>)] = JStr(<<"g","r","o","w",";"," ","s","a","v","e",","," ","s","p","e","n","d">>)
    /\ export_rows[2][ColumnIndex(<<"G","o","a","l","s">>)] = JStr(<<"g","r","o","w",","," ","f","a","s","t">>)
    /\ export_rows[1][ColumnIndex(<<"L","o","c","a","t","i","o","n">>)] = JStr(<<"U","K",","," ","E","U">>)

\* the 26 columns of the output in their fixed order
FixedColumns ==
    <<<<"C","l","i","e","n","t"," ","N","a","m","e">>,
      <<"P","r","o","d","u","c","t"," ","N","a","m","e">>,
      <<"P","e","r","s","o","n","a"," ","N","a","m","e">>,
      <<"P","e","r","s","o","n","a"," ","T","y","p","e">>,
      <<"A","g","e"," ","R","a","n","g","e">>,
      <<"G","e","n","d","e","r">>,
      <<"L","o","c","a","t","i","o","n">>,
      <<"I","n","c","o","m","e"," ","L","e","v","e","l">>,
      <<"N","e","t"," ","W","o","r","t","h">>,
      <<"E","d","u","c","a","t","i","o","n">>,
      <<"O","c","c","u","p","a","t","i","o","n">>,
      <<"F","a","m","i","l","y"," ","S","t","a","t","u","s">>,
      <<"V","a","l","u","e","s">>,
      <<"M","o","t","i","v","a","t","i","o","n","s">>,
      <<"L","i","f","e","s","t","y","l","e">>,
      <<"I","n","t","e","r","e","s","t","s">>,
      <<"G","o","a","l","s">>,
      <<"C","h","a","l","l","e","n","g","e","s">>,
      <<"N","e","e","d","s">>,
      <<"P","a","i","n"," ","P","o","i","n","t","s">>,
      <<"R","e","s","e","a","r","c","h"," ","S","t","y","l","e">>,
      <<"D","e","c","i","s","i","o","n"," ","M","a","k","i","n","g">>,
      <<"C","o","m","m","u","n","i","c","a","t","i","o","n"," ","P","r","e","f","e","r","e","n","c","e","s">>,
      <<"O","n","l","i","n","e"," ","B","e","h","a","v","i","o","r">>,
      <<"Q","u","o","t","e">>,
      <<"K","e","y"," ","C","h","a","r","a","c","t","e","r","i","s","t","i","c","s">>>>

\* the groups of a persona
Groups ==
    {<<"d","e","m","o","g","r","a","p","h","i","c","s">>, <<"p","s","y","c","h","o","g","r","a","p","h","i","c","s">>, <<"b","e","h","a","v","i","o","r">>}

\* a persona as the data model has it, with every field optional: a mapping
\* whose groups are mappings and whose list fields hold, when they are
\* lists, strings only
IsPersona(persona) ==
    /\ persona.t = "dict"
    /\ \A g \in Groups : DictHas(persona, g) => DictGet(persona, g, JNone).t = "dict"
    /\ \A f \in 1..Len(ListFields) :
           LET value == FieldOf(persona, ListFields[f])
           IN  (HasField(persona, ListFields[f]) /\ value.t = "list") => IsListOfStrings(value)

\* a non-empty list of personas
IsPersonaList(personas) ==
    /\ personas.t = "list"
    /\ personas.v # <<>>
    /\ \A i \in 1..Len(personas.v) : IsPersona(personas.v[i])

\* the records a csv reader reads back from the file at output_path
ReadBack == CsvReader(output_file.content).records

\* C16: for a non-empty persona list export writes a file of one header
\* row with the 26 fixed columns in order and then one row of 26 fields per
\* persona in input order, whatever keys the personas carry, and a field
\* or group a persona does not have is written as the empty string.
C16_HeaderThenOneRowPerPersona ==
    (epc = "done" /\ IsPersonaList(export_personas)) =>
        /\ export_outcome = "returned"
        /\ output_file.exists
        /\ ~CsvReader(output_file.content).error
        /\ Len(ReadBack) = 1 + Len(export_personas.v)
        /\ ReadBack[1] = FixedColumns
        /\ \A i \in 1..Len(export_personas.v) :
               LET persona == export_personas.v[i]
                   row == ReadBack[1 + i]
                   name == FieldOf(persona, ScalarFields[1])
               IN  /\ Len(row) = 26
                   /\ (HasField(persona, ScalarFields[1]) /\ name.t = "str") => row[3] = name.v
                   /\ \A f \in 1..Len(ListFields) :
                          ~HasField(persona, ListFields[f]) =>
                              row[ColumnIndex(ListFields[f].column)] = <<>>
                   /\ \A f \in 1..Len(ScalarFields) :
                          ~HasField(persona, ScalarFields[f]) =>
                              row[ColumnIndex(ScalarFields[f].column)] = <<>>

\* two personas with keys outside the data model and most fields absent have
\* been exported
C16_Witness ==
    /\ epc = "done"
    /\ export_personas = JList(<<P_ExtraKeys, P_NameOnly>>)
    /\ export_client_info = CI_Both
    /\ outputs = <<output_file>>
    /\ Len(ReadBack) = 3
    /\ ReadBack[1] = FixedColumns
    /\ ReadBack[2][3] = <<>>
    /\ ReadBack[3][3] = <<"B","u","s","y"," ","B","e","n">>
    /\ ReadBack[3][2] = <<"W","i","d","g","e","t",","," ","P","r","o">>

\* C17: export called with an empty persona list returns and leaves what is
\* at output_path as it was: no file is created, and a file that is there
\* is neither truncated nor written.
C17_EmptyListLeavesFile ==
    [][(Export /\ export_personas = JList(<<>>)) =>
           /\ export_outcome' = "returned"
           /\ export_rows' = <<>>
           /\ output_file' = output_file]_vars

\* export has been called with an empty list where a file already was, and
\* the file still has its content
C17_Witness ==
    /\ epc = "done"
    /\ export_personas = JList(<<>>)
    /\ export_outcome = "returned"
    /\ outputs = <<[exists |-> TRUE, content |-> OldContent]>>
    /\ output_file = [exists |-> TRUE, content |-> OldContent]

\* C18: two calls of export with the same persona list and the same
\* client_info leave the same content in the output file both times, and a
\* call of export changes neither the persona list nor client_info.
C18_ExportIdempotent ==
    /\ [](Len(outputs) = 2 => outputs[1] = outputs[2])
    /\ [][Export => /\ export_personas' = export_personas
                    /\ export_client_info' = export_client_info]_vars

\* export has been called twice with a persona that has every field, and
\* the file holds a header and one row after each call
C18_Witness ==
    /\ epc = "done"
    /\ Len(outputs) = 2
    /\ export_personas = JList(<<P_Full>>)
    /\ export_client_info = CI_Both
    /\ outputs[1].exists
    /\ Len(CsvReader(outputs[1].content).records) = 2
    /\ outputs[2] = output_file
    /\ Len(ReadBack) = 2

\* a persona whose list fields are all there and are lists of strings
HasAllListsPopulated(persona) ==
    /\ IsPersona(persona)
    /\ \A f \in 1..Len(ListFields) :
           /\ HasField(persona, ListFields[f])
           /\ IsListOfStrings(FieldOf(persona, ListFields[f]))
           /\ FieldOf(persona, ListFields[f]).v # <<>>

\* C19: for an exported persona whose list fields are all populated with
\* strings, the written file read back as CSV has in every list column
\* exactly the field's elements joined with '; ', also when elements hold
\* commas, double quotes or '; ' themselves.
C19_ListColumnsRoundTrip ==
    (epc = "done" /\ IsPersonaList(export_personas)) =>
        \A i \in 1..Len(export_personas.v) :
            HasAllListsPopulated(export_personas.v[i]) =>
                /\ Len(ReadBack) > i
                /\ \A f \in 1..Len(ListFields) :
                       ReadBack[1 + i][ColumnIndex(ListFields[f].column)]
                           = JoinedWithSemicolon(FieldOf(export_personas.v[i], ListFields[f]))

\* a persona whose list elements hold a comma, double quotes and '; ' has
\* been exported as the second of two and read back
C19_Witness ==
    /\ epc = "done"
    /\ export_personas = JList(<<P_NameOnly, P_Full>>)
    /\ Len(ReadBack) = 3
    /\ ReadBack[3][17] = <<"g","r","o","w",";"," ","s","a","v","e",","," ","s","p","e","n","d">>
    /\ ReadBack[3][14] = <<"s","a","y"," ","\"","g","o","\"">>
    /\ ReadBack[3][16] = <<"x",";"," ","y",";"," ","z">>

(***************************************************************************)
(* Claims about main.                                                      *)
(***************************************************************************)
\* C20: main ends with exit code 1 and without a call of the exporter when
\* the input file does not exist, when generate_personas raises and when
\* it returns an empty list; it ends with exit code 0 only after the
\* exporter has been called with a non-empty list of personas.
C20_ExitCodes ==
    mpc = "exited" =>
        /\ ~input_exists => (exit_code = 1 /\ export_calls = <<>>)
        /\ pc = "raised" => (exit_code = 1 /\ export_calls = <<>>)
        /\ (pc = "returned" /\ result = JList(<<>>)) => (exit_code = 1 /\ export_calls = <<>>)
        /\ exit_code = 0 =>
               /\ Len(export_calls) = 1
               /\ export_calls[1].t = "list"
               /\ export_calls[1].v # <<>>
               /\ epc = "done"

\* generate_personas has returned an empty list after a retried attempt and
\* main has ended with exit code 1 without calling the exporter
C20_Witness ==
    /\ mpc = "exited"
    /\ input_exists
    /\ pc = "returned"
    /\ calls = 2
    /\ result = JList(<<>>)
    /\ exit_code = 1
    /\ export_calls = <<>>
    /\ epc = "idle"

(***************************************************************************)
(* Claims about the delays of generate_personas.                           *)
(***************************************************************************)
\* the delays of the first sleeps of a call, in seconds
PowersOfTwo == <<1, 2, 4, 8, 16, 32>>

\* C21: the sleep taken after the failure of zero-based attempt k lasts
\* 2^k seconds, after a retryable model-call error and after a JSON syntax
\* failure alike, so the delays of one call are 1, 2, 4, ... and strictly
\* increasing.
C21_BackoffDoubles ==
    /\ Len(sleeps) <= Len(history)
    /\ \A i \in 1..Len(sleeps) :
           /\ history[i] \in {"retryable_error", "text"}
           /\ sleeps[i] = PowersOfTwo[i]
    /\ \A i \in 1..Len(sleeps), j \in 1..Len(sleeps) : i < j => sleeps[i] < sleeps[j]

\* a call has slept 1, 2 and 4 seconds: after a retryable error, after a
\* JSON syntax failure and after a retryable error again
C21_Witness ==
    /\ max_retries = 4
    /\ history = <<"retryable_error", "text", "retryable_error">>
    /\ sleeps = <<1, 2, 4>>
    /\ attempt = 3
    /\ pc = "loop"

(***************************************************************************)
(* Claims about the metadata and the records of QuestionnaireParser.parse. *)
(***************************************************************************)
\* the key and the value a line gives: what is before and what is after its
\* first comma, each trimmed
MetaKey(line) == Strip(SubSeq(line, 1, Find(line, <<",">>) - 1))

\* the value a line gives
MetaValue(line) == Strip(SubSeq(line, Find(line, <<",">>) + 1, Len(line)))

\* the positions of the lines that give metadata: those with a comma that
\* precede the header row, or every line with a comma when no header row is
\* detected
MetaLines ==
    {i \in 1..(IF header_found THEN header_row_index ELSE Len(all_lines)) :
        Contains(all_lines[i], <<",">>)}

\* C22: once the scan for the header is over, client_info holds exactly the
\* lines with a comma that precede the detected header row, each split on
\* its first comma into a trimmed key and a trimmed value, the last line
\* winning for a repeated key; the header row and the lines after it give
\* no entry.
C22_MetadataBeforeHeader ==
    ppc \in {"read", "rows", "returned", "raised"} =>
        /\ \A e \in 1..Len(client_info) :
               \E i \in MetaLines :
                   /\ client_info[e].k = MetaKey(all_lines[i])
                   /\ client_info[e].v = MetaValue(all_lines[i])
                   /\ \A j \in MetaLines :
                          (j > i) => MetaKey(all_lines[j]) # MetaKey(all_lines[i])
        /\ \A i \in MetaLines :
               \E e \in 1..Len(client_info) : client_info[e].k = MetaKey(all_lines[i])
        /\ \A e \in 1..Len(client_info), f \in 1..Len(client_info) :
               client_info[e].k = client_info[f].k => e = f

\* a file with a repeated key, a value with a comma inside and a line without
\* a comma before the header, and a line that reads like metadata after it
C22_Witness ==
    /\ ppc = "returned"
    /\ columns = ColsDefault
    /\ all_lines = <<L_Meta, L_MetaSpaced, L_MetaDup, L_Header, L_MetaAfter>>
    /\ header_found
    /\ header_row_index = 3
    /\ Len(questions_answers) = 1
    /\ client_info = <<[k |-> <<"C","l","i","e","n","t"," ","N","a","m","e">>,
                        v |-> <<"B","e","t","a"," ","C","o","r","p">>],
                       [k |-> <<"P","r","o","d","u","c","t"," ","N","a","m","e">>,
                        v |-> <<"W","i","d","g","e","t",","," ","P","r","o">>]>>

\* the field a row has under a column name that was found: the last field of
\* that name; '' when the column was not found
FieldUnder(row, col) ==
    IF ~col.found THEN <<>>
    ELSE LET at == {i \in 1..Len(fieldnames) : fieldnames[i] = col.name}
         IN  row[CHOOSE i \in at : \A j \in at : j <= i]

\* the positions of the data rows that are kept: those with a question and
\* an answer that are not blank
KeptRows ==
    {i \in 1..Len(reader.rows) :
        /\ Strip(FieldUnder(reader.rows[i], col_names.question)) # <<>>
        /\ Strip(FieldUnder(reader.rows[i], col_names.answer)) # <<>>}

\* the record all_qa is to hold for a data row
RecordOf(row) ==
    LET section == Strip(FieldUnder(row, col_names.section))
    IN  [section |-> IF section = <<>> THEN <<"G","e","n","e","r","a","l">> ELSE section,
         question |-> Strip(FieldUnder(row, col_names.question)),
         answer |-> Strip(FieldUnder(row, col_names.answer))]

\* C23: in the dataset parse returns, all_qa has one record per kept data
\* row, in the order of the file, with section, question and answer
\* trimmed and with section 'General' when the row's section is blank or
\* there is no section column.
C23_AllQaInFileOrder ==
    ppc = "returned" =>
        /\ Len(Dataset.all_qa) = Cardinality(KeptRows)
        /\ \A i \in KeptRows :
               Dataset.all_qa[Cardinality({j \in KeptRows : j <= i})] = RecordOf(reader.rows[i])

\* a file with a row whose section is blank and whose answer is padded, then
\* a row with a section, has been parsed
C23_Witness ==
    /\ ppc = "returned"
    /\ columns = ColsDefault
    /\ all_lines = <<L_Header, L_RowBlankSection, L_Row>>
    /\ Dataset.all_qa = <<[section |-> <<"G","e","n","e","r","a","l">>,
                           question |-> <<"H","o","w","?">>,
                           answer |-> <<"F","a","s","t">>],
                          [section |-> <<"P","e","r","s","o","n","a">>,
                           question |-> <<"W","h","a","t","?">>,
                           answer |-> <<"S","p","e","e","d">>]>>

(***************************************************************************)
(* Claims about the value generate_personas returns.                       *)
(***************************************************************************)
\* C24: whenever generate_personas returns, the value returned is a list,
\* also for an object whose "personas" value is null or a string and on the
\* salvage path.
C24_ReturnsAList ==
    pc = "returned" => result.t = "list"

(***************************************************************************)
(* Properties of the web app session.                                      *)
(***************************************************************************)

\* C25: in the web app, the questionnaire data handed to generate_personas
\* was parsed in that same run from the file in the uploader, and between
\* runs the Generate button is offered only with questionnaire data parsed
\* in the latest run from the file in the uploader; after an upload that
\* fails validation or whose parse raises, data of an earlier file is
\* neither offered nor used.
C25_GenerateOnThisRunsFile ==
    /\ apc = "generate" =>
           /\ generate_input.set
           /\ generate_input.file = uploaded_file.lines
           /\ generate_input.run = run_no
    /\ (apc = "wait" /\ offered) =>
           /\ questionnaire_data.set
           /\ questionnaire_data.file = uploaded_file.lines
           /\ questionnaire_data.run = run_no

\* C26: in the web app session, personas_generated is true only if
\* personas_data is a non-empty list of personas that can be flattened and
\* csv_data is the CSV text flattened from that same list.
C26_SessionResultsTogether ==
    personas_generated =>
        /\ personas_data.t = "list"
        /\ personas_data.v # <<>>
        /\ csv_data.set
        /\ ~FlattenRaises(personas_data)
        /\ csv_data.text = ToCsv(BaseRows(personas_data.v, session_client_info.items))
====
